---- MODULE Spec2Model ----
(***************************************************************************)
(* A model of style_transfer.py: the supervising process (StyleTransfer /  *)
(* CaffeModel tiling rounds), the TileWorkerPool, the TileWorker processes *)
(* and the POSIX shared-memory regions (SharedNDArray) they hand to each   *)
(* other over multiprocessing queues.                                      *)
(***************************************************************************)
EXTENDS Integers, Sequences, FiniteSets, TLC

\* ---------------------------------------------------------------- bounds
\* len(ARGS.devices): the number of TileWorker processes
NumWorkers == 2
\* len(sizes) in transfer_multiscale: the number of scales of the run
NumScales == 2
\* the largest np.prod(ntiles) of a tiling round
MaxTiles == 2
\* ARGS.iterations: optimizer iterations (gradient rounds) per scale
Iterations == 1
\* mkl.get_max_threads() when MKL is present
MklMax == 4
\* the longest worker queue the pool's client builds up in SpecPool
MaxQueue == 2

\* the largest image edge (pixels) and the largest --tile-size of the tile
\* grids of SpecTiles
MaxEdge == 6
MaxTileSize == 4
\* the largest height and width of an optimizer buffer, the largest roll
\* offset per axis, and the number of optimizer calls of a run of SpecAdam
MaxH == 2
MaxW == 2
MaxShift == 1
MaxCalls == 4
MaxSteps == 2
\* the largest --size and --min-size, the length to which the list of sizes
\* is followed, and the largest entry and length of --iterations
MaxSize == 4
MaxSizes == 4
MaxIters == 2
MaxSchedule == 2

\* ------------------------------------------------------ program constants
\* prepare_features(..., passes=10)
Passes == 10
\* AdamOptimizer(params, step_size=1, b1=0.9, b2=0.999, bp1=0), --step-size
\* (default 15) and --avg-window (default 20); EPS = finfo(float32).eps.
\* float32 numbers are modelled in fixed point, in thousandths (One), EPS as
\* the smallest positive number
One == 10 * 10 * 10
b1 == 900
b2 == 999
step_size == 15000
avg_window == 20
EPS == 1

Workers == 0 .. (NumWorkers - 1)
\* the process id of the supervising (master) process
Master == NumWorkers

\* ARGS.content_layers, ARGS.style_layers, and CaffeModel.layers()
ContentLayers == {"conv4_2"}
StyleLayers == {"conv1_1"}
Layers == ContentLayers \union StyleLayers

\* transfer_multiscale is called with [content_image] and the style images
ContentImages == {"content"}
StyleImages == {"style"}
\* preprocess_images visits the style images first, then the content images
Images == <<"style", "content">>

\* Process.exitcode: None while the process runs, else the exit status
\* (negative: killed by that signal)
None == <<>>
SIGKILL == 0 - 9
SIGTERM == 0 - 15
ExitCodes == {SIGKILL, 0, 1}

VARIABLES
    \* the supervising process
    pc, scale, img, pass, npasses, ntiles, tile, got, iter,
    contents, styles, content_shms, style_shms, bw,
    \* TileWorkerPool
    next_worker, req_count, is_healthy, req_q, resp_q,
    \* TileWorker processes
    exitcode, wcontents, wstyles, wthreads, wscale,
    \* MKL_THREADS, POSIX shared memory
    MKL_THREADS, shm,
    \* history: the defects that have happened, the current round's targets,
    \* whether ensure_healthy has raised
    log, roundLog, raised,
    \* the tile loop of eval_features_once / eval_sc_grad on its own
    \* (SpecTiles): the image size, the tile_size argument, the loop
    \* position and the rectangles dispatched so far
    img_size, tile_size, tile_y, tile_x, rects,
    \* the AdamOptimizer on its own (SpecAdam, SpecResume): the optimizer
    \* object, the pickled state file, the caller's position, the number of
    \* calls made, and the history of the last calls
    optimizer, saved, phase, calls, hist,
    \* main and transfer_multiscale: the content images' sizes and the number
    \* of style masks passed in, the output recorded by the last completed
    \* iteration, what main has saved at the end of the run, and where a
    \* KeyboardInterrupt arrived
    content_images, style_masks, current_output, emitted, interrupt_pc,
    \* the origins of the results the receiving loop of the current round has
    \* consumed so far
    consumed,
    \* the reassembly of one round's tile results on its own (SpecReassembly):
    \* the kind of round, the layer's stride, the tiles whose results have
    \* arrived, the full feature buffer and the full gradient buffer, the
    \* number of writes each feature cell has had, and whether a write failed
    round_kind, stride, arrived, features, full_grad, written, failed,
    \* one process's CaffeModel under roll (SpecRoll): the reference arrays
    \* and the image, the roll that awaits its inverse, the record of the
    \* last pair of rolls, and the process and its content layers
    model_refs, jitter_xy, roll_hist, roll_cfg,
    \* transfer_multiscale on its own (SpecMultiscale): the arguments, the
    \* optimizer state given with --state, and the function's locals and the
    \* StyleTransfer fields it uses, with the record of what it has done
    ARGS, initial_state, ms,
    \* history: the threads_per_process the last reset_next_worker has
    \* computed and queued (before the first, the 1 of set_thread_count(1)
    \* at import)
    threads_per_process,
    \* reset_next_worker and the workers' set_thread_count on their own
    \* (SpecBudget): MKL_THREADS, the pool's size and job count, each worker's
    \* pending SetThreadCount message and the cap it has applied
    pool_budget,
    \* one gradient evaluation's layers on their own (SpecLayers): the three
    \* requested layer lists, the lists transfer and the worker build from
    \* them, and the record of the tile evaluation's calls
    sc_eval

supVars == <<pc, scale, img, pass, npasses, ntiles, tile, got, iter,
             contents, styles, content_shms, style_shms, bw>>
poolVars == <<next_worker, req_count, is_healthy, req_q, resp_q>>
workerVars == <<exitcode, wcontents, wstyles, wthreads, wscale>>
tileVars == <<img_size, tile_size, tile_y, tile_x, rects>>
\* what the supervisor, pool and worker actions leave alone
adamVars == <<optimizer, saved, phase, calls, hist>>
mainVars == <<content_images, style_masks, current_output, emitted, interrupt_pc>>
asmVars == <<round_kind, stride, arrived, features, full_grad, written, failed>>
rollVars == <<model_refs, jitter_xy, roll_hist, roll_cfg>>
msVars == <<ARGS, initial_state, ms>>
budgetVars == <<threads_per_process, pool_budget>>
evalVars == <<sc_eval>>
extVars == <<rollVars, msVars, budgetVars, evalVars>>
auxVars == <<tileVars, adamVars, mainVars, consumed, asmVars, extVars>>
vars == <<supVars, poolVars, workerVars, MKL_THREADS, shm, log, roundLog, raised,
          auxVars>>

\* no tile loop of SpecTiles is running
\* StyleTransfer.__init__: no output yet; one content image and no style
\* masks
MainIdle ==
    /\ content_images = <<1>>
    /\ style_masks = 0
    /\ current_output = None
    /\ emitted = None
    /\ interrupt_pc = None
    /\ consumed = {}

\* no round being reassembled
\* no CaffeModel of SpecRoll exists
RollIdle ==
    /\ model_refs = <<>>
    /\ jitter_xy = <<>>
    /\ roll_hist = <<>>
    /\ roll_cfg = <<>>

\* transfer_multiscale of SpecMultiscale is not running
MsIdle ==
    /\ ARGS = <<>>
    /\ initial_state = <<>>
    /\ ms = <<>>

\* set_thread_count(1) at import, inherited by the forked workers
BudgetIdle ==
    /\ threads_per_process = 1
    /\ pool_budget = <<>>

EvalIdle == sc_eval = <<>>

ExtIdle == RollIdle /\ MsIdle /\ BudgetIdle /\ EvalIdle

AsmIdle ==
    /\ round_kind = "none"
    /\ stride = 1
    /\ arrived = {}
    /\ features = <<>>
    /\ full_grad = <<>>
    /\ written = <<>>
    /\ failed = FALSE

TilesIdle ==
    /\ img_size = <<1, 1>>
    /\ tile_size = 1
    /\ tile_y = 0
    /\ tile_x = 0
    /\ rects = <<>>
    /\ AsmIdle

\* no optimizer of SpecAdam or SpecResume exists
AdamIdle ==
    /\ optimizer = <<>>
    /\ saved = <<>>
    /\ phase = "idle"
    /\ calls = 0
    /\ hist = <<>>

\* ------------------------------------------------------------ SharedNDArray
\* A region is named by its creator, the creator's allocation count and the
\* part of the message it carries (posix_ipc picks a fresh name).
Name(p, n, part) == [by |-> p, n |-> n, part |-> part]
Kind(r) == r.part[1]
Role(p) == IF p = Master THEN "master" ELSE "worker"

\* SharedNDArray.copy / zeros_like / __init__(name=None): the creator
\* allocates the regions of f (name -> payload) and writes the payload.
SharedNDArray_copy(s, f) == f @@ s

\* SharedNDArray.unlink: shm_unlink removes the names
SharedNDArray_unlink(s, names) == [r \in (DOMAIN s) \ names |-> s[r]]

\* ---- what the history variable log keeps: the defects that have happened
\* the process the hand-off makes the releaser of a region: the receiving
\* worker for a tile input, the supervisor for results and reference data
Releaser(kind) == IF kind = "tile" THEN "worker" ELSE "master"

\* a write to region r by process p; handed: r has been put on a queue
WriteEv(p, r, handed) ==
    IF r.by = p /\ ~handed THEN {}
    ELSE {[defect |-> "write after hand-off", kind |-> Kind(r), by |-> Role(p)]}
\* __setstate__ (open by name) and .array reads, against shared memory s
UseEv(p, r, s) ==
    IF r \in DOMAIN s THEN {}
    ELSE {[defect |-> "use after unlink", kind |-> Kind(r), by |-> Role(p)]}
\* unlink() of r by p, against shared memory s
UnlinkEv(p, r, s) ==
    (IF r \in DOMAIN s THEN {}
     ELSE {[defect |-> "unlink of an unlinked region", kind |-> Kind(r), by |-> Role(p)]})
    \union
    (IF Role(p) = Releaser(Kind(r)) THEN {}
     ELSE {[defect |-> "unlink by another process", kind |-> Kind(r), by |-> Role(p)]})
\* a message put on a worker's inbound queue
PutEv(type) ==
    IF raised THEN {[defect |-> "put after raise", kind |-> type, by |-> "master"]}
    ELSE {}
\* a result of round have and origin o taken off the result queue in round
\* want, in which the origins in sent were dispatched and those in seen have
\* been consumed
ResultEv(have, want, o, sent, seen) ==
    IF have = want /\ o \in sent /\ o \notin seen THEN {}
    ELSE {[defect |-> "result of no job of the round", kind |-> "tile", by |-> "master"]}
\* a round returns its assembled output with the origins in seen consumed,
\* of the origins in sent
ReturnEv(sent, seen) ==
    IF sent = seen THEN {}
    ELSE {[defect |-> "round returned before all results", kind |-> "tile", by |-> "master"]}
\* a gradient evaluation by a worker whose reference data is of scale have,
\* for a job of scale want
EvalEv(have, want) ==
    IF have = want THEN {}
    ELSE {[defect |-> "stale reference data", kind |-> "SCGradRequest", by |-> "worker"]}

\* the regions a ContentData / StyleData of handles names
Range(f) == {f[x] : x \in DOMAIN f}
ContentRegions(c) == Range(c.features) \union Range(c.masks)
StyleRegions(st) == Range(st.grams) \union Range(st.masks)
ListRegions(cs, ss) ==
    UNION ({ContentRegions(cs[i]) : i \in DOMAIN cs}
           \union {StyleRegions(ss[i]) : i \in DOMAIN ss})

\* ------------------------------------------------------------- TileWorker
\* bool(proc.exitcode): None and 0 are both false
Truthy(ec) == ec # None /\ ec[1] # 0

\* .array.copy() of a received handle: a private array with the region's
\* contents; view is the region it aliases, if any
Payload(r) ==
    IF r \in DOMAIN shm THEN shm[r] ELSE [scale |-> 0, what |-> <<"unlinked">>]
ArrayView(r) == [val |-> Payload(r), view |-> <<r>>]
ArrayCopy(r) == [val |-> Payload(r), view |-> <<>>]

\* the arrays model.roll shifts in place: content features, content masks and
\* style masks (roll_features writes feats[layer][:])
RolledArrays(w) ==
    UNION {Range(wcontents[w][i].features) \union Range(wcontents[w][i].masks)
           : i \in DOMAIN wcontents[w]}
    \union UNION {Range(wstyles[w][i].masks) : i \in DOMAIN wstyles[w]}

\* the shared regions those arrays alias
Aliased(w) == UNION {Range(a.view) : a \in RolledArrays(w)}

\* the regions a queued message names
MessageRegions(m) ==
    CASE m.type \in {"FeatureMapRequest", "SCGradRequest"} -> {m.img}
      [] m.type = "SetContentsAndStyles" -> ListRegions(m.contents, m.styles)
      [] m.type = "FeatureMapResponse" -> m.features
      [] m.type = "SCGradResponse" -> {m.grad}
      [] OTHER -> {}

\* every name that is linked or that some process still holds a handle to
Known ==
    DOMAIN shm
    \union UNION {MessageRegions(resp_q[i]) : i \in DOMAIN resp_q}
    \union UNION {UNION {MessageRegions(req_q[w][i]) : i \in DOMAIN req_q[w]}
                  : w \in Workers}
    \union ListRegions(content_shms, style_shms)
    \union UNION {Aliased(w) : w \in Workers}

\* posix_ipc.SharedMemory(None, O_CREX): a name no process knows; modelled
\* as the creator's j-th smallest allocation count not in use
Used(p) == {r.n : r \in {x \in Known : x.by = p}}
RECURSIVE NthFree(_, _)
NthFree(U, j) ==
    LET n == CHOOSE n \in 0 .. Cardinality(U) :
                 n \notin U /\ \A m \in 0 .. (n - 1) : m \in U
    IN  IF j <= 1 THEN n ELSE NthFree(U \union {n}, j - 1)
Fresh(p) == NthFree(Used(p), 1)

\* the regions process_one_request unlinks for a tile request (req.img.unlink())
WorkerReleases_none(req) == {}
WorkerReleases(req) == {req.img}

\* the shared memory the tile evaluation reads req.img against: the unlink
\* follows the evaluation
ShmAtEval_unlinked(req) == SharedNDArray_unlink(shm, {req.img})
ShmAtEval(req) == shm

\* process_one_request, FeatureMapRequest branch
OnFeatureMapRequest(w, req) ==
    LET feats == [r \in {Name(w, Fresh(w), <<"result", l>>) : l \in req.layers}
                    |-> [scale |-> req.scale, what |-> <<"features", r.part[2]>>]]
        s1 == SharedNDArray_unlink(shm, WorkerReleases(req))
    IN  [shm |-> SharedNDArray_copy(s1, feats),
         resp |-> <<[type |-> "FeatureMapResponse", resp |-> req.resp,
                     features |-> DOMAIN feats, scale |-> req.scale,
                     round |-> req.round]>>,
         log |-> UseEv(w, req.img, ShmAtEval(req))
                 \union UNION {UnlinkEv(w, r, shm) : r \in WorkerReleases(req)}
                 \union UNION {WriteEv(w, r, FALSE) : r \in DOMAIN feats},
         contents |-> wcontents[w], styles |-> wstyles[w],
         threads |-> wthreads[w], wscale |-> wscale[w]]

\* process_one_request, SCGradRequest branch: model.roll writes the worker's
\* reference arrays in place, before and after the evaluation
OnSCGradRequest(w, req) ==
    LET g == Name(w, Fresh(w), <<"grad">>)
        s1 == SharedNDArray_unlink(shm, WorkerReleases(req))
    IN  [shm |-> SharedNDArray_copy(s1, g :> [scale |-> req.scale, what |-> <<"grad">>]),
         resp |-> <<[type |-> "SCGradResponse", resp |-> req.resp,
                     grad |-> g, scale |-> req.scale, round |-> req.round]>>,
         log |-> UNION {WriteEv(w, r, TRUE) : r \in Aliased(w)}
                 \union EvalEv(wscale[w], req.scale)
                 \union UseEv(w, req.img, ShmAtEval(req))
                 \union UNION {UnlinkEv(w, r, shm) : r \in WorkerReleases(req)}
                 \union WriteEv(w, g, FALSE),
         contents |-> wcontents[w], styles |-> wstyles[w],
         threads |-> wthreads[w], wscale |-> wscale[w]]

\* the acknowledgement of a SetContentsAndStyles message: self.resp_q.put(())
Ack_none == <<>>
Ack == <<[type |-> "Ack"]>>

\* process_one_request, SetContentsAndStyles branch
OnSetContentsAndStyles(w, req) ==
    [shm |-> shm,
     resp |-> Ack,
     log |-> UNION {UseEv(w, r, shm) : r \in ListRegions(req.contents, req.styles)},
     contents |-> [i \in DOMAIN req.contents |->
                     [features |-> [l \in DOMAIN req.contents[i].features |->
                                      ArrayCopy(req.contents[i].features[l])],
                      masks |-> [l \in DOMAIN req.contents[i].masks |->
                                      ArrayCopy(req.contents[i].masks[l])]]],
     styles |-> [i \in DOMAIN req.styles |->
                     [grams |-> [l \in DOMAIN req.styles[i].grams |->
                                      ArrayCopy(req.styles[i].grams[l])],
                      masks |-> [l \in DOMAIN req.styles[i].masks |->
                                      ArrayCopy(req.styles[i].masks[l])]]],
     threads |-> wthreads[w], wscale |-> req.scale]

\* set_thread_count(threads): mkl.set_num_threads(max(1, threads)) when MKL
\* is present
ThreadCap(threads) == IF threads < 1 THEN 1 ELSE threads

\* process_one_request, SetThreadCount branch
OnSetThreadCount_acks(w, req) ==
    [shm |-> shm, resp |-> Ack, log |-> {},
     contents |-> wcontents[w], styles |-> wstyles[w],
     threads |-> IF MKL_THREADS # None THEN ThreadCap(req.threads) ELSE wthreads[w],
     wscale |-> wscale[w]]
OnSetThreadCount(w, req) ==
    [shm |-> shm, resp |-> <<>>, log |-> {},
     contents |-> wcontents[w], styles |-> wstyles[w],
     threads |-> IF MKL_THREADS # None THEN ThreadCap(req.threads) ELSE wthreads[w],
     wscale |-> wscale[w]]

\* multiprocessing.Queue pickles a message in its feeder thread, after put()
\* has returned: a SetContentsAndStyles message holds the caller's two lists
\* by reference until then
Pickled(m) == m.type = "SetContentsAndStyles" => m.pickled

FeederPickle(w) ==
    /\ \E i \in DOMAIN req_q[w] :
          /\ ~Pickled(req_q[w][i])
          /\ \A j \in 1 .. (i - 1) : Pickled(req_q[w][j])
          /\ req_q' = [req_q EXCEPT ![w][i] =
                [@ EXCEPT !.pickled = TRUE, !.contents = content_shms,
                          !.styles = style_shms]]
    /\ UNCHANGED <<supVars, next_worker, req_count, is_healthy, resp_q,
                   workerVars, MKL_THREADS, shm, log, roundLog, raised>>
    /\ UNCHANGED auxVars

\* TileWorker.process_one_request: req_q.get(), then the branch of the type
process_one_request(w) ==
    /\ exitcode[w] = None
    /\ req_q[w] # <<>>
    /\ Pickled(Head(req_q[w]))
    /\ LET req == Head(req_q[w])
           out == CASE req.type = "FeatureMapRequest" -> OnFeatureMapRequest(w, req)
                    [] req.type = "SCGradRequest" -> OnSCGradRequest(w, req)
                    [] req.type = "SetContentsAndStyles" -> OnSetContentsAndStyles(w, req)
                    [] req.type = "SetThreadCount" -> OnSetThreadCount(w, req)
       IN  /\ req_q' = [req_q EXCEPT ![w] = Tail(@)]
           /\ resp_q' = resp_q \o out.resp
           /\ shm' = out.shm
           /\ log' = log \union out.log
           /\ wcontents' = [wcontents EXCEPT ![w] = out.contents]
           /\ wstyles' = [wstyles EXCEPT ![w] = out.styles]
           /\ wthreads' = [wthreads EXCEPT ![w] = out.threads]
           /\ wscale' = [wscale EXCEPT ![w] = out.wscale]
    /\ UNCHANGED <<supVars, next_worker, req_count, is_healthy, exitcode,
                   MKL_THREADS, roundLog, raised>>
    /\ UNCHANGED auxVars

\* the supervising process has left transfer_multiscale: normally, with an
\* uncaught TileWorkerPoolError, with the KeyboardInterrupt main() catches,
\* or with another uncaught exception
RunEnded == pc \in {"done", "raised", "interrupted", "crashed", "config_error"}

\* A worker process exits: killed by a signal, an uncaught exception
\* (status 1), or an exit with status 0 from inside the network library.
\* Exits after the run has ended are left out: the interpreter's exit
\* terminates the daemonic workers.
WorkerExit(w) ==
    /\ exitcode[w] = None
    /\ ~RunEnded
    /\ \E c \in ExitCodes : exitcode' = [exitcode EXCEPT ![w] = <<c>>]
    /\ UNCHANGED <<supVars, poolVars, wcontents, wstyles, wthreads, wscale,
                   MKL_THREADS, shm, log, roundLog, raised>>
    /\ UNCHANGED auxVars

\* ---------------------------------------------------------- TileWorkerPool
\* TileWorker.__del__: terminate() unless bool(exitcode); a running process
\* dies of SIGTERM, one that has already exited keeps its status
TileWorker_del(ec) == IF ~Truthy(ec) /\ ec = None THEN <<SIGTERM>> ELSE ec

\* ensure_healthy: the conditions under which it raises TileWorkerPoolError
Malfunction(ec) == Truthy(ec)
Unhealthy == ~is_healthy \/ \E w \in Workers : Malfunction(exitcode[w])

\* the pool after ensure_healthy has raised: TileWorkerPool.__del__ ran if
\* the pool was healthy until now
HealthAfterRaise == FALSE
ExitcodesAfterRaise ==
    IF is_healthy THEN [w \in Workers |-> TileWorker_del(exitcode[w])] ELSE exitcode

\* a call of ensure_healthy: a defect if a worker has exited and the call
\* returns, or if it raises and leaves the pool healthy or a worker running
EnsureEv ==
    (IF (\E w \in Workers : exitcode[w] # None) /\ ~Unhealthy
     THEN {[defect |-> "exit not detected", kind |-> "ensure_healthy", by |-> "master"]}
     ELSE {})
    \union
    (IF Unhealthy /\ (HealthAfterRaise \/ \E w \in Workers : ExitcodesAfterRaise[w] = None)
     THEN {[defect |-> "raise without teardown", kind |-> "ensure_healthy", by |-> "master"]}
     ELSE {})

\* ensure_healthy() raising
ensure_healthy_raises ==
    /\ Unhealthy
    /\ is_healthy' = HealthAfterRaise
    /\ exitcode' = ExitcodesAfterRaise
    /\ raised' = TRUE
    /\ log' = log \union EnsureEv

\* request: the cursor after a job went to worker nw
Advance(nw) == (nw + 1) % NumWorkers

\* TileWorkerPool.request(req)
request(req) ==
    /\ req_q' = [req_q EXCEPT ![next_worker] = Append(@, req)]
    /\ req_count' = req_count + 1
    /\ next_worker' = Advance(next_worker)
    /\ roundLog' = Append(roundLog, next_worker)

\* TileWorkerPool.set_thread_count(threads): one message per worker
set_thread_count_first(q, threads) ==
    [w \in Workers |-> <<[type |-> "SetThreadCount", threads |-> threads]>> \o q[w]]
set_thread_count(q, threads) ==
    [w \in Workers |-> Append(q[w], [type |-> "SetThreadCount", threads |-> threads])]

\* reset_next_worker: active_workers = min(len(self.workers), max(1, req_count))
ActiveWorkers(n, count) ==
    LET a1 == IF count < 1 THEN 1 ELSE count
    IN  IF n < a1 THEN n ELSE a1

\* reset_next_worker: threads_per_process = MKL_THREADS // active_workers
ThreadsPerProcessOf(mkl, n, count) == mkl \div ActiveWorkers(n, count)

\* reset_next_worker: threads_per_process from the round's job count
ThreadsPerProcess(count) == ThreadsPerProcessOf(MKL_THREADS[1], NumWorkers, count)

\* reset_next_worker: the cursor it leaves, given the cursor it found
CursorAfterReset_kept(nw) == nw
CursorAfterReset(nw) == 0

\* TileWorkerPool.reset_next_worker()
reset_next_worker ==
    /\ req_q' = IF MKL_THREADS # None
                THEN set_thread_count(req_q, ThreadsPerProcess(req_count))
                ELSE req_q
    /\ log' = IF MKL_THREADS # None THEN log \union PutEv("SetThreadCount") ELSE log
    /\ req_count' = 0
    /\ next_worker' = CursorAfterReset(next_worker)
    /\ roundLog' = <<>>

\* set_contents_and_styles: the handles made for one worker
ContentHandles ==
    [i \in DOMAIN contents |->
        [features |-> [l \in DOMAIN contents[i].features |->
             Name(Master, NthFree(Used(Master), i), <<"ref", "features", l>>)],
         masks |-> [l \in DOMAIN contents[i].masks |->
             Name(Master, NthFree(Used(Master), i), <<"ref", "masks", l>>)]]]
StyleHandles ==
    [i \in DOMAIN styles |->
        [grams |-> [l \in DOMAIN styles[i].grams |->
             Name(Master, NthFree(Used(Master), Len(contents) + i), <<"ref", "grams", l>>)],
         masks |-> [l \in DOMAIN styles[i].masks |->
             Name(Master, NthFree(Used(Master), Len(contents) + i), <<"ref", "masks", l>>)]]]
\* the array each of those handles copies
RefSource(r, cs, ss) ==
    IF \E i \in DOMAIN cs : r \in ContentRegions(cs[i])
    THEN contents[CHOOSE i \in DOMAIN cs : r \in ContentRegions(cs[i])][r.part[2]][r.part[3]]
    ELSE styles[CHOOSE i \in DOMAIN ss : r \in StyleRegions(ss[i])][r.part[2]][r.part[3]]

\* set_contents_and_styles: the responses it reads before it unlinks
AcksToAwait_one == IF NumWorkers > 1 THEN NumWorkers - 1 ELSE NumWorkers
AcksToAwait == NumWorkers

\* set_contents_and_styles, first loop, one worker: copy every reference
\* array into shared memory, append the handles to the two lists, put
set_contents_and_styles_put ==
    /\ bw < NumWorkers
    /\ LET cs == ContentHandles
           ss == StyleHandles
           f == [r \in ListRegions(cs, ss) |-> RefSource(r, cs, ss)]
       IN  /\ shm' = SharedNDArray_copy(shm, f)
           /\ content_shms' = content_shms \o cs
           /\ style_shms' = style_shms \o ss
           /\ req_q' = [req_q EXCEPT ![bw] = Append(@,
                  [type |-> "SetContentsAndStyles", pickled |-> FALSE,
                   contents |-> <<>>, styles |-> <<>>, scale |-> scale])]
           /\ log' = log \union UNION {WriteEv(Master, r, FALSE) : r \in DOMAIN f}
                         \union PutEv("SetContentsAndStyles")
    /\ bw' = bw + 1
    /\ got' = 0

\* set_contents_and_styles, second loop: self.resp_q.get(), whatever it holds
set_contents_and_styles_get ==
    /\ bw = NumWorkers
    /\ got < AcksToAwait
    /\ resp_q # <<>>
    /\ resp_q' = Tail(resp_q)
    /\ got' = got + 1

\* set_contents_and_styles, the unlink loops, and the return
set_contents_and_styles_unlink ==
    /\ bw = NumWorkers
    /\ got = AcksToAwait
    /\ LET rs == ListRegions(content_shms, style_shms)
       IN  /\ shm' = SharedNDArray_unlink(shm, rs)
           /\ log' = log \union UNION {UnlinkEv(Master, r, shm) : r \in rs}

\* ------------------------------------------- the supervising process
\* what preprocess_images appends for image number i once its feature maps
\* are assembled: StyleData(grams, masks) or ContentData(feats, masks)
StyleDataOf(i) ==
    [grams |-> [l \in StyleLayers |-> [scale |-> scale, what |-> <<"grams", l>>]],
     masks |-> [l \in Layers |-> [scale |-> scale, what |-> <<"style.masks", l>>]]]
ContentDataOf(i) ==
    [features |-> [l \in ContentLayers |-> [scale |-> scale, what |-> <<"features", l>>]],
     masks |-> [l \in Layers |-> [scale |-> scale, what |-> <<"content.masks", l>>]]]

\* the layers asked of a feature round: style_layers for a style image,
\* content_layers for a content image
LayersOf(i) == IF Images[i] \in StyleImages THEN StyleLayers ELSE ContentLayers

\* the arguments of transfer_multiscale: the sizes of the content images
\* (main passes one image; a caller may pass several, of one size or not) and
\* the number of style masks (none, or more than there are style images)
ContentImageSizes == {<<1>>, <<1, 2>>}
StyleMaskCounts == {0, Cardinality(StyleImages) + 1}

\* the checks at the top of a scale of transfer_multiscale: a content image
\* of another size than the first, or style masks given in another number
\* than the style images, raise ValueError
ConfigError_none(contentImages, styleMasks) == FALSE
ConfigError(contentImages, styleMasks) ==
    \/ \E i \in DOMAIN contentImages : contentImages[i] # contentImages[1]
    \/ styleMasks # 0 /\ styleMasks # Cardinality(StyleImages)

\* transfer_multiscale, top of the loop over the scales: scale the images
\* and masks, raise on a configuration error, else call transfer
ScaleBegin ==
    /\ pc = "scale"
    /\ pc' = IF ConfigError(content_images, style_masks) THEN "config_error"
             ELSE "transfer"
    /\ UNCHANGED <<scale, img, pass, npasses, ntiles, tile, got, iter, contents,
                   styles, content_shms, style_shms, bw, poolVars, workerVars,
                   MKL_THREADS, shm, log, roundLog, raised>>
    /\ UNCHANGED auxVars

\* transfer: reset model.contents and model.styles, start preprocess_images
BeginTransfer ==
    /\ pc = "transfer"
    /\ contents' = <<>>
    /\ styles' = <<>>
    /\ img' = 1
    /\ pc' = "prepare_features"
    /\ UNCHANGED <<scale, pass, npasses, ntiles, tile, got, iter, content_shms,
                   style_shms, bw, poolVars, workerVars, MKL_THREADS, shm,
                   log, roundLog, raised>>
    /\ UNCHANGED auxVars

\* prepare_features: the image's tile count, and one pass if the image fits
\* one tile (max(*img_size) <= tile_size), else the default
PrepareFeaturesUpTo(maxTiles) ==
    /\ pc = "prepare_features"
    /\ \E k \in 1 .. maxTiles :
          /\ ntiles' = k
          /\ npasses' = IF k = 1 THEN 1 ELSE Passes
    /\ pass' = 0
    /\ tile' = 0
    /\ pc' = "features"
    /\ UNCHANGED <<scale, img, got, iter, contents, styles, content_shms,
                   style_shms, bw, poolVars, workerVars, MKL_THREADS, shm,
                   log, roundLog, raised>>
    /\ UNCHANGED auxVars

PrepareFeatures == PrepareFeaturesUpTo(MaxTiles)

\* the round under way: the scale, image, pass and iteration it belongs to
\* (kept on its messages for the record only, as is the threads_per_process
\* of the round before)
Round == <<scale, img, pass, iter>>

\* the origins of the jobs the tile loop dispatches for n tiles
Origins(n) == 0 .. (n - 1)

\* the number of results the receiving loop takes: range(np.prod(ntiles))
ResultsAwaited_short(n) == n - 1
ResultsAwaited(n) == n

\* one turn of the tile loop of eval_features_once / eval_sc_grad:
\* pool.ensure_healthy(); pool.request(Request(start, SharedNDArray.copy(tile), ...))
Dispatch(at, type, layers) ==
    /\ pc = at
    /\ tile < ntiles
    /\ IF Unhealthy
       THEN /\ ensure_healthy_raises
            /\ pc' = "raised"
            /\ UNCHANGED <<tile, next_worker, req_count, req_q, shm, roundLog>>
       ELSE LET r == Name(Master, Fresh(Master), <<"tile">>)
            IN  /\ shm' = SharedNDArray_copy(shm,
                              r :> [scale |-> scale, what |-> <<"tile">>])
                /\ request([type |-> type, resp |-> tile, img |-> r,
                            layers |-> layers, scale |-> scale, round |-> Round,
                            budget |-> threads_per_process])
                /\ tile' = tile + 1
                /\ log' = log \union EnsureEv \union WriteEv(Master, r, FALSE)
                              \union PutEv(type)
                /\ UNCHANGED <<pc, is_healthy, exitcode, raised>>
    /\ UNCHANGED <<scale, img, pass, npasses, ntiles, got, iter, contents, styles,
                   content_shms, style_shms, bw, resp_q, wcontents, wstyles,
                   wthreads, wscale, MKL_THREADS>>
    /\ UNCHANGED auxVars

\* pool.reset_next_worker() after the tile loop
Reset(at, to) ==
    /\ pc = at
    /\ tile = ntiles
    /\ reset_next_worker
    /\ pc' = to
    /\ got' = 0
    /\ UNCHANGED <<scale, img, pass, npasses, ntiles, tile, iter, contents, styles,
                   content_shms, style_shms, bw, is_healthy, resp_q, workerVars,
                   MKL_THREADS, shm, raised>>
    /\ consumed' = {}
    /\ threads_per_process' = IF MKL_THREADS # None
                              THEN ThreadsPerProcess(req_count)
                              ELSE threads_per_process
    /\ UNCHANGED <<tileVars, adamVars, mainVars, asmVars, rollVars, msVars,
                   pool_budget, evalVars>>

\* the regions of a tile response, as the receiving loop unpacks it
ResultRegions(m) ==
    IF m.type = "FeatureMapResponse" THEN m.features ELSE {m.grad}

\* one turn of the result loop: pool.resp_q.get(), copy the tile into the
\* full buffer, unlink; a message of another shape fails to unpack
Collect(at, type) ==
    /\ pc = at
    /\ got < ResultsAwaited(ntiles)
    /\ resp_q # <<>>
    /\ LET m == Head(resp_q)
       IN  IF m.type = type
           THEN /\ shm' = SharedNDArray_unlink(shm, ResultRegions(m))
                /\ log' = log \union UNION {UseEv(Master, r, shm) : r \in ResultRegions(m)}
                              \union UNION {UnlinkEv(Master, r, shm) : r \in ResultRegions(m)}
                              \union ResultEv(m.round, Round, m.resp, Origins(ntiles),
                                              consumed)
                /\ got' = got + 1
                /\ consumed' = consumed \union {m.resp}
                /\ pc' = pc
           ELSE /\ pc' = "crashed"
                /\ UNCHANGED <<shm, log, got, consumed>>
    /\ resp_q' = Tail(resp_q)
    /\ UNCHANGED <<scale, img, pass, npasses, ntiles, tile, iter, contents, styles,
                   content_shms, style_shms, bw, next_worker, req_count, is_healthy,
                   req_q, workerVars, MKL_THREADS, roundLog, raised>>
    /\ UNCHANGED <<tileVars, adamVars, mainVars, asmVars, extVars>>

\* eval_features_once returns: the next pass, the next image, or the end of
\* preprocess_images and the call of pool.set_contents_and_styles
FeaturesReturn ==
    /\ pc = "features_collect"
    /\ got = ResultsAwaited(ntiles)
    /\ IF pass + 1 < npasses
       THEN /\ pass' = pass + 1
            /\ pc' = "features"
            /\ UNCHANGED <<img, contents, styles, content_shms, style_shms, bw>>
       ELSE /\ pass' = 0
            /\ styles' = IF Images[img] \in StyleImages
                         THEN Append(styles, StyleDataOf(img)) ELSE styles
            /\ contents' = IF Images[img] \in ContentImages
                           THEN Append(contents, ContentDataOf(img)) ELSE contents
            /\ IF img < Len(Images)
               THEN /\ img' = img + 1
                    /\ pc' = "prepare_features"
                    /\ UNCHANGED <<content_shms, style_shms, bw>>
               ELSE /\ pc' = "set_contents_and_styles"
                    /\ content_shms' = <<>>
                    /\ style_shms' = <<>>
                    /\ bw' = 0
                    /\ UNCHANGED img
    /\ tile' = 0
    /\ UNCHANGED <<scale, npasses, ntiles, got, iter, poolVars, workerVars,
                   MKL_THREADS, shm, roundLog, raised>>
    /\ log' = log \union ReturnEv(Origins(ntiles), consumed)
    /\ UNCHANGED auxVars

SetCSPut ==
    /\ pc = "set_contents_and_styles"
    /\ set_contents_and_styles_put
    /\ UNCHANGED <<pc, scale, img, pass, npasses, ntiles, tile, iter, contents,
                   styles, next_worker, req_count, is_healthy, resp_q, workerVars,
                   MKL_THREADS, roundLog, raised>>
    /\ UNCHANGED auxVars

SetCSGet ==
    /\ pc = "set_contents_and_styles"
    /\ set_contents_and_styles_get
    /\ UNCHANGED <<pc, scale, img, pass, npasses, ntiles, tile, iter, contents,
                   styles, content_shms, style_shms, bw, next_worker, req_count,
                   is_healthy, req_q, workerVars, MKL_THREADS, shm, log,
                   roundLog, raised>>
    /\ UNCHANGED auxVars

\* main after transfer_multiscale has returned or KeyboardInterrupt was
\* caught: if transfer.current_output, save the image and the state
MainSaves(out) ==
    IF out # None THEN <<[image |-> out, state |-> "optimizer"]>> ELSE None

\* where transfer / transfer_multiscale go on after the last gradient round
\* of a scale
AfterScale == IF scale < NumScales THEN "scale" ELSE "done"

\* set_contents_and_styles returns to transfer: the iteration loop
SetCSUnlink ==
    /\ pc = "set_contents_and_styles"
    /\ set_contents_and_styles_unlink
    /\ iter' = 0
    /\ tile' = 0
    /\ IF Iterations > 0
       THEN pc' = "sc_grad" /\ scale' = scale
       ELSE pc' = AfterScale /\ scale' = IF scale < NumScales THEN scale + 1 ELSE scale
    /\ UNCHANGED <<img, pass, npasses, ntiles, got, contents, styles, content_shms,
                   style_shms, bw, poolVars, workerVars, MKL_THREADS,
                   roundLog, raised>>
    /\ emitted' = IF pc' = "done" THEN MainSaves(current_output) ELSE emitted
    /\ UNCHANGED <<tileVars, adamVars, content_images, style_masks, current_output,
                   interrupt_pc, consumed, asmVars, extVars>>

\* eval_sc_grad returns and the iteration completes, recording its output
\* (the averaged iterate of this scale and step): the next iteration, the
\* next scale, or the end of the run
GradReturn ==
    /\ pc = "sc_grad_collect"
    /\ got = ResultsAwaited(ntiles)
    /\ tile' = 0
    /\ IF iter + 1 < Iterations
       THEN /\ iter' = iter + 1
            /\ pc' = "sc_grad"
            /\ scale' = scale
       ELSE /\ iter' = 0
            /\ pc' = AfterScale
            /\ scale' = IF scale < NumScales THEN scale + 1 ELSE scale
    /\ UNCHANGED <<img, pass, npasses, ntiles, got, contents, styles, content_shms,
                   style_shms, bw, poolVars, workerVars, MKL_THREADS, shm,
                   roundLog, raised>>
    /\ log' = log \union ReturnEv(Origins(ntiles), consumed)
    /\ current_output' = <<scale, iter + 1>>
    /\ emitted' = IF pc' = "done" THEN MainSaves(current_output') ELSE emitted
    /\ UNCHANGED <<tileVars, adamVars, content_images, style_masks, interrupt_pc, consumed, asmVars, extVars>>

\* KeyboardInterrupt in the supervising process, caught by main()
Interrupt ==
    /\ ~RunEnded
    /\ pc' = "interrupted"
    /\ UNCHANGED <<scale, img, pass, npasses, ntiles, tile, got, iter, contents,
                   styles, content_shms, style_shms, bw, poolVars, workerVars,
                   MKL_THREADS, shm, log, roundLog, raised>>
    /\ interrupt_pc' = <<pc>>
    /\ emitted' = MainSaves(current_output)
    /\ UNCHANGED <<tileVars, adamVars, content_images, style_masks, current_output,
                   consumed, asmVars, extVars>>

Init ==
    /\ ExtIdle
    /\ pc = "scale"
    /\ scale = 1
    /\ img = 1
    /\ pass = 0
    /\ npasses = 1
    /\ ntiles = 1
    /\ tile = 0
    /\ got = 0
    /\ iter = 0
    /\ contents = <<>>
    /\ styles = <<>>
    /\ content_shms = <<>>
    /\ style_shms = <<>>
    /\ bw = 0
    /\ next_worker = 0
    /\ req_count = 0
    /\ is_healthy = TRUE
    /\ req_q = [w \in Workers |-> <<>>]
    /\ resp_q = <<>>
    /\ exitcode = [w \in Workers |-> None]
    /\ wcontents = [w \in Workers |-> <<>>]
    /\ wstyles = [w \in Workers |-> <<>>]
    /\ wthreads = [w \in Workers |-> 1]
    /\ wscale = [w \in Workers |-> 0]
    /\ MKL_THREADS \in {None, <<MklMax>>}
    /\ shm = <<>>
    /\ log = {}
    /\ roundLog = <<>>
    /\ raised = FALSE
    /\ TilesIdle
    /\ AdamIdle
    /\ content_images \in ContentImageSizes
    /\ style_masks \in StyleMaskCounts
    /\ current_output = None
    /\ emitted = None
    /\ interrupt_pc = None
    /\ consumed = {}

WorkerNext ==
    \E w \in Workers : process_one_request(w) \/ FeederPickle(w) \/ WorkerExit(w)

SupervisorRest ==
    \/ ScaleBegin
    \/ BeginTransfer
    \/ Dispatch("features", "FeatureMapRequest", LayersOf(img))
    \/ Reset("features", "features_collect")
    \/ Collect("features_collect", "FeatureMapResponse")
    \/ FeaturesReturn
    \/ SetCSPut
    \/ SetCSGet
    \/ SetCSUnlink
    \/ Dispatch("sc_grad", "SCGradRequest", Layers)
    \/ Reset("sc_grad", "sc_grad_collect")
    \/ Collect("sc_grad_collect", "SCGradResponse")
    \/ GradReturn

SupervisorNext == PrepareFeatures \/ SupervisorRest

Next == SupervisorNext \/ WorkerNext \/ Interrupt

Spec == Init /\ [][Next]_vars

\* --------------------------------------------- a run without failure
\* The same run with no worker exiting and no interrupt (SpecLive), for
\* images of up to one tile more than there are workers. The supervising
\* process and every worker process run whenever they can take a step
\* (each is an operating-system process of its own), and so does the feeder
\* thread of each request queue.
LiveTiles == NumWorkers + 1

SupervisorLive == PrepareFeaturesUpTo(LiveTiles) \/ SupervisorRest

NextLive ==
    \/ SupervisorLive
    \/ \E w \in Workers : process_one_request(w) \/ FeederPickle(w)

SpecLive ==
    /\ Init
    /\ [][NextLive]_vars
    /\ WF_vars(SupervisorLive)
    /\ \A w \in Workers : WF_vars(process_one_request(w)) /\ WF_vars(FeederPickle(w))

\* ------------------------------------------ the pool under any caller
\* TileWorkerPool's methods called in any order by a client that holds the
\* pool (SpecPool): the same pool, workers and shared memory, with the
\* caller free of transfer's sequence of calls.
RECURSIVE Queued(_)
Queued(n) == IF n = 0 THEN 0 ELSE Len(req_q[n - 1]) + Queued(n - 1)
\* messages on the queues; the caller keeps them to MaxQueue
InFlight == Len(resp_q) + Queued(NumWorkers)
Room == InFlight < MaxQueue
RoomForAll == InFlight + NumWorkers <= MaxQueue

\* pool.request(Request(..., SharedNDArray.copy(tile), ...))
ApiRequest ==
    /\ pc = "api"
    /\ Room
    /\ Len(roundLog) <= NumWorkers
    /\ \E type \in {"FeatureMapRequest", "SCGradRequest"} :
          LET r == Name(Master, Fresh(Master), <<"tile">>)
          IN  /\ shm' = SharedNDArray_copy(shm,
                            r :> [scale |-> scale, what |-> <<"tile">>])
              /\ request([type |-> type, resp |-> req_count, img |-> r,
                          layers |-> ContentLayers, scale |-> scale, round |-> <<>>])
              /\ log' = log \union WriteEv(Master, r, FALSE) \union PutEv(type)
    /\ UNCHANGED <<supVars, is_healthy, resp_q, workerVars, MKL_THREADS, raised>>
    /\ UNCHANGED auxVars

\* pool.ensure_healthy(), the caller catching TileWorkerPoolError
ApiEnsureHealthy ==
    /\ pc = "api"
    /\ IF Unhealthy
       THEN ensure_healthy_raises
       ELSE /\ log' = log \union EnsureEv
            /\ UNCHANGED <<is_healthy, exitcode, raised>>
    /\ UNCHANGED <<supVars, next_worker, req_count, req_q, resp_q, wcontents,
                   wstyles, wthreads, wscale, MKL_THREADS, shm, roundLog>>
    /\ UNCHANGED auxVars

\* pool.reset_next_worker()
ApiResetNextWorker ==
    /\ pc = "api"
    /\ RoomForAll
    /\ reset_next_worker
    /\ UNCHANGED <<supVars, is_healthy, resp_q, workerVars, MKL_THREADS, shm, raised>>
    /\ UNCHANGED auxVars

\* pool.set_thread_count(threads)
ApiSetThreadCount ==
    /\ pc = "api"
    /\ RoomForAll
    /\ \E threads \in {MklMax} : req_q' = set_thread_count(req_q, threads)
    /\ log' = log \union PutEv("SetThreadCount")
    /\ UNCHANGED <<supVars, next_worker, req_count, is_healthy, resp_q, workerVars,
                   MKL_THREADS, shm, roundLog, raised>>
    /\ UNCHANGED auxVars

\* pool.set_contents_and_styles(contents, styles) is entered, with no tile
\* response outstanding
ApiSetContentsAndStyles ==
    /\ pc = "api"
    /\ RoomForAll
    /\ resp_q = <<>>
    /\ \A w \in Workers : \A i \in DOMAIN req_q[w] :
          req_q[w][i].type \notin {"FeatureMapRequest", "SCGradRequest"}
    /\ pc' = "set_contents_and_styles"
    /\ content_shms' = <<>>
    /\ style_shms' = <<>>
    /\ bw' = 0
    /\ UNCHANGED <<scale, img, pass, npasses, ntiles, tile, got, iter, contents,
                   styles, poolVars, workerVars, MKL_THREADS, shm, log, roundLog,
                   raised>>
    /\ UNCHANGED auxVars

\* pool.set_contents_and_styles returns to the caller
ApiSetContentsAndStylesReturn ==
    /\ pc = "set_contents_and_styles"
    /\ set_contents_and_styles_unlink
    /\ pc' = "api"
    /\ UNCHANGED <<scale, img, pass, npasses, ntiles, tile, got, iter, contents,
                   styles, content_shms, style_shms, bw, poolVars, workerVars,
                   MKL_THREADS, roundLog, raised>>
    /\ UNCHANGED auxVars

\* the caller reads one tile response, as the result loops do:
\* pool.resp_q.get(), then unlink of what it carries
ApiGet ==
    /\ pc = "api"
    /\ resp_q # <<>>
    /\ LET m == Head(resp_q)
       IN  /\ shm' = SharedNDArray_unlink(shm, MessageRegions(m))
           /\ log' = log \union UNION {UseEv(Master, r, shm) : r \in MessageRegions(m)}
                         \union UNION {UnlinkEv(Master, r, shm) : r \in MessageRegions(m)}
    /\ resp_q' = Tail(resp_q)
    /\ UNCHANGED <<supVars, next_worker, req_count, is_healthy, req_q, workerVars,
                   MKL_THREADS, roundLog, raised>>
    /\ UNCHANGED auxVars

InitPool ==
    /\ ExtIdle
    /\ pc = "api"
    /\ scale = 1
    /\ img = 1
    /\ pass = 0
    /\ npasses = 1
    /\ ntiles = 1
    /\ tile = 0
    /\ got = 0
    /\ iter = 0
    /\ contents = <<ContentDataOf(1)>>
    /\ styles = <<StyleDataOf(1)>>
    /\ content_shms = <<>>
    /\ style_shms = <<>>
    /\ bw = 0
    /\ next_worker = 0
    /\ req_count = 0
    /\ is_healthy = TRUE
    /\ req_q = [w \in Workers |-> <<>>]
    /\ resp_q = <<>>
    /\ exitcode = [w \in Workers |-> None]
    /\ wcontents = [w \in Workers |-> <<>>]
    /\ wstyles = [w \in Workers |-> <<>>]
    /\ wthreads = [w \in Workers |-> 1]
    /\ wscale = [w \in Workers |-> 0]
    /\ MKL_THREADS \in {None, <<MklMax>>}
    /\ shm = <<>>
    /\ log = {}
    /\ roundLog = <<>>
    /\ raised = FALSE
    /\ TilesIdle
    /\ AdamIdle
    /\ MainIdle

NextPool ==
    \/ ApiRequest
    \/ ApiEnsureHealthy
    \/ ApiResetNextWorker
    \/ ApiSetThreadCount
    \/ ApiSetContentsAndStyles
    \/ SetCSPut
    \/ SetCSGet
    \/ ApiSetContentsAndStylesReturn
    \/ ApiGet
    \/ WorkerNext

SpecPool == InitPool /\ [][NextPool]_vars

\* ------------------------------------------------- the tile grid alone
\* The tile loop of eval_features_once and eval_sc_grad for any image size
\* and any tile_size argument (SpecTiles).

\* ntiles = (img_size-1) // tile_size + 1, per axis
NTiles_floor(S, T) == S \div T + 1
NTiles(S, T) == (S - 1) \div T + 1

\* tile_size = img_size // ntiles, per axis
TileEdge(S, T) == S \div NTiles(S, T)

\* start = xy * tile_size
TileStart(i, S, T) == i * TileEdge(S, T)

\* end = start + tile_size; the last tile of the axis ends at img_size
TileEnd_plain(i, S, T) == TileStart(i, S, T) + TileEdge(S, T)
TileEnd(i, S, T) ==
    IF i = NTiles(S, T) - 1 THEN S ELSE TileStart(i, S, T) + TileEdge(S, T)

\* one turn of `for y in range(ntiles[0]): for x in range(ntiles[1])`:
\* tile = self.img[:, start[0]:end[0], start[1]:end[1]] is dispatched
TileLoopStep ==
    /\ tile_y < NTiles(img_size[1], tile_size)
    /\ rects' = Append(rects,
           [xy |-> <<tile_y, tile_x>>,
            start |-> <<TileStart(tile_y, img_size[1], tile_size),
                        TileStart(tile_x, img_size[2], tile_size)>>,
            end |-> <<TileEnd(tile_y, img_size[1], tile_size),
                      TileEnd(tile_x, img_size[2], tile_size)>>])
    /\ IF tile_x + 1 < NTiles(img_size[2], tile_size)
       THEN tile_x' = tile_x + 1 /\ tile_y' = tile_y
       ELSE tile_x' = 0 /\ tile_y' = tile_y + 1
    /\ UNCHANGED <<img_size, tile_size>>
    /\ UNCHANGED <<supVars, poolVars, workerVars, MKL_THREADS, shm, log, roundLog,
                   raised, adamVars, mainVars, consumed, asmVars, extVars>>

\* the supervisor, pool and workers of Spec, at rest
DriverIdle ==
    /\ pc = "idle"
    /\ scale = 1
    /\ img = 1
    /\ pass = 0
    /\ npasses = 1
    /\ ntiles = 1
    /\ tile = 0
    /\ got = 0
    /\ iter = 0
    /\ contents = <<>>
    /\ styles = <<>>
    /\ content_shms = <<>>
    /\ style_shms = <<>>
    /\ bw = 0
    /\ next_worker = 0
    /\ req_count = 0
    /\ is_healthy = TRUE
    /\ req_q = [w \in Workers |-> <<>>]
    /\ resp_q = <<>>
    /\ exitcode = [w \in Workers |-> None]
    /\ wcontents = [w \in Workers |-> <<>>]
    /\ wstyles = [w \in Workers |-> <<>>]
    /\ wthreads = [w \in Workers |-> 1]
    /\ wscale = [w \in Workers |-> 0]
    /\ MKL_THREADS = None
    /\ shm = <<>>
    /\ log = {}
    /\ roundLog = <<>>
    /\ raised = FALSE
    /\ MainIdle

InitTiles ==
    /\ ExtIdle
    /\ DriverIdle
    /\ AdamIdle
    /\ AsmIdle
    /\ img_size \in (1 .. MaxEdge) \X (1 .. MaxEdge)
    /\ tile_size \in 1 .. MaxTileSize
    /\ tile_y = 0
    /\ tile_x = 0
    /\ rects = <<>>

NextTiles == TileLoopStep

SpecTiles == InitTiles /\ [][NextTiles]_vars

\* ------------------------------------------- reassembly of a round
\* The receiving loops of eval_features_once and eval_sc_grad on their own:
\* the results of the tiles dispatched arrive in any order and are written
\* into the full buffer.  An array is a sequence of rows; an element holds 0
\* (np.zeros) or the number of the tile whose result was written there last:
\* the results of two tiles are different arrays.

\* the most tiles of a round reassembled here
\* the network's layers above the input in SpecLayers
NumLayers == 3

\* the pool sizes and the jobs of one round SpecBudget draws
MaxPool == 3
MaxJobs == 3

MaxRoundTiles == 4

\* the scale factors of the layers: layer_info gives 224 // shapes[layer][1]
Strides == {1, 2, 4}

\* np.ceil(a / s), as an integer
CeilDiv(a, s) == (a + s - 1) \div s

\* np.zeros(shape)
Zeros(h, w) == [i \in 1 .. h |-> [j \in 1 .. w |-> 0]]

\* the shape of the feature map the network returns for a tile: every
\* pooling layer halves the edge, rounding up
FeatShape(r, s) ==
    <<CeilDiv(r.end[1] - r.start[1], s), CeilDiv(r.end[2] - r.start[2], s)>>

\* start_f = start // scale and end_f = start_f + feat.array.shape[-2:]
StartF(r, s) == <<r.start[1] \div s, r.start[2] \div s>>
EndF(r, s) ==
    <<StartF(r, s)[1] + FeatShape(r, s)[1], StartF(r, s)[2] + FeatShape(r, s)[2]>>

\* buf[:, a[0]:b[0], a[1]:b[1]] = v: the elements of rows a[0] .. b[0]-1 and
\* columns a[1] .. b[1]-1 (counted from 0) are set
InSlice(i, j, a, b) == a[1] < i /\ i <= b[1] /\ a[2] < j /\ j <= b[2]
SliceAssign(buf, a, b, v) ==
    [i \in DOMAIN buf |-> [j \in DOMAIN buf[i] |->
        IF InSlice(i, j, a, b) THEN v ELSE buf[i][j]]]
SliceCount(cnt, a, b) ==
    [i \in DOMAIN cnt |-> [j \in DOMAIN cnt[i] |->
        IF InSlice(i, j, a, b) THEN cnt[i][j] + 1 ELSE cnt[i][j]]]

\* the slice reaches past the buffer: numpy cuts the slice short and the
\* assignment of the larger array raises ValueError
PastBuffer(buf, b) == b[1] > Len(buf) \/ b[2] > Len(buf[1])

\* one turn of the receiving loop of eval_features_once: the result of tile
\* k is taken off the queue and written at start // scale
FeatureResult ==
    /\ round_kind = "features"
    /\ tile_y = NTiles(img_size[1], tile_size)
    /\ ~failed
    /\ \E k \in (DOMAIN rects) \ arrived :
          /\ arrived' = arrived \union {k}
          /\ IF PastBuffer(features, EndF(rects[k], stride))
             THEN /\ failed' = TRUE
                  /\ UNCHANGED <<features, written>>
             ELSE /\ features' = SliceAssign(features, StartF(rects[k], stride),
                                             EndF(rects[k], stride), k)
                  /\ written' = SliceCount(written, StartF(rects[k], stride),
                                           EndF(rects[k], stride))
                  /\ UNCHANGED failed
    /\ UNCHANGED <<round_kind, stride, full_grad>>
    /\ UNCHANGED <<supVars, poolVars, workerVars, MKL_THREADS, shm, log, roundLog,
                   raised, tileVars, adamVars, mainVars, consumed, extVars>>

\* one turn of the receiving loop of eval_sc_grad: the gradient of tile k
\* is written at grad[:, start[0]:end[0], start[1]:end[1]]
GradResult ==
    /\ round_kind = "sc_grad"
    /\ tile_y = NTiles(img_size[1], tile_size)
    /\ \E k \in (DOMAIN rects) \ arrived :
          /\ arrived' = arrived \union {k}
          /\ full_grad' = SliceAssign(full_grad, rects[k].start, rects[k].end, k)
    /\ UNCHANGED <<round_kind, stride, features, written, failed>>
    /\ UNCHANGED <<supVars, poolVars, workerVars, MKL_THREADS, shm, log, roundLog,
                   raised, tileVars, adamVars, mainVars, consumed, extVars>>

InitReassembly ==
    /\ ExtIdle
    /\ DriverIdle
    /\ AdamIdle
    /\ img_size \in (1 .. MaxEdge) \X (1 .. MaxEdge)
    /\ tile_size \in 1 .. MaxTileSize
    /\ NTiles(img_size[1], tile_size) * NTiles(img_size[2], tile_size) <= MaxRoundTiles
    /\ tile_y = 0
    /\ tile_x = 0
    /\ rects = <<>>
    /\ round_kind \in {"features", "sc_grad"}
    /\ stride \in Strides
    /\ arrived = {}
    /\ features = Zeros(CeilDiv(img_size[1], stride), CeilDiv(img_size[2], stride))
    /\ written = Zeros(CeilDiv(img_size[1], stride), CeilDiv(img_size[2], stride))
    /\ full_grad = Zeros(img_size[1], img_size[2])
    /\ failed = FALSE

NextReassembly ==
    \/ TileLoopStep
    \/ FeatureResult
    \/ GradResult

SpecReassembly == InitReassembly /\ [][NextReassembly]_vars

\* ---------------------------------------------------------- AdamOptimizer
\* Arrays are sequences of rows (the channel axis is left out: every buffer
\* has the iterate's channels); numbers are fixed point, in thousandths.
Shape(a) == <<Len(a), Len(a[1])>>
Shapes == (1 .. MaxH) \X (1 .. MaxW)
Offsets == ((0 - MaxShift) .. MaxShift) \X ((0 - MaxShift) .. MaxShift)
Neg(xy) == <<0 - xy[1], 0 - xy[2]>>

\* np.zeros_like
zeros_like(a) == [i \in DOMAIN a |-> [j \in DOMAIN a[i] |-> 0]]

\* float32 product, quotient, square root and power, in fixed point
Mul(a, c) == (a * c) \div One
Div(a, c) == (a * One) \div c
Sqrt(a) == CHOOSE r \in 0 .. (a + One) : r * r <= a * One /\ (r + 1) * (r + 1) > a * One
RECURSIVE Pow(_, _)
Pow(a, t) == IF t = 0 THEN One ELSE Mul(a, Pow(a, t - 1))

\* axpy(a, x, y): y = a*x + y
axpy(a, x, y) ==
    [i \in DOMAIN x |-> [j \in DOMAIN x[i] |-> Mul(a, x[i][j]) + y[i][j]]]

\* arr *= a, arr**2 and arr / a, elementwise
Scaled(arr, a) == [i \in DOMAIN arr |-> [j \in DOMAIN arr[i] |-> Mul(arr[i][j], a)]]
Squared(arr) == [i \in DOMAIN arr |-> [j \in DOMAIN arr[i] |-> Mul(arr[i][j], arr[i][j])]]
Over(arr, a) == [i \in DOMAIN arr |-> [j \in DOMAIN arr[i] |-> Div(arr[i][j], a)]]

\* g1 / (np.sqrt(g2) + EPS)
AdamStep_epsAbove(g1, g2) ==
    [i \in DOMAIN g1 |-> [j \in DOMAIN g1[i] |-> Div(g1[i][j] + EPS, Sqrt(g2[i][j]) + EPS)]]
AdamStep(g1, g2) ==
    [i \in DOMAIN g1 |-> [j \in DOMAIN g1[i] |-> Div(g1[i][j], Sqrt(g2[i][j]) + EPS)]]

\* np.roll(arr, shift, axis): axis 2 is the last axis (columns), axis 1 the
\* rows; elements pushed over the edge come back at the other side
np_roll_fill(a, shift, axis) ==
    IF axis = 2
    THEN [i \in DOMAIN a |-> [j \in DOMAIN a[i] |->
            IF j - shift \in DOMAIN a[i] THEN a[i][j - shift] ELSE 0]]
    ELSE [i \in DOMAIN a |-> [j \in DOMAIN a[i] |->
            IF i - shift \in DOMAIN a THEN a[i - shift][j] ELSE 0]]
np_roll(a, shift, axis) ==
    IF axis = 2
    THEN [i \in DOMAIN a |-> [j \in DOMAIN a[i] |->
            a[i][((j - 1 - shift) % Len(a[i])) + 1]]]
    ELSE [i \in DOMAIN a |-> [j \in DOMAIN a[i] |->
            a[((i - 1 - shift) % Len(a)) + 1][j]]]

\* roll2(arr, xy) = np.roll(np.roll(arr, xy[0], -1), xy[1], -2)
roll2(arr, xy) ==
    IF xy = <<0, 0>> THEN arr ELSE np_roll(np_roll(arr, xy[1], 2), xy[2], 1)

\* resize(a, hw, method): the array resampled to hw; the filter's output is
\* the nearest source element plus the filter's overshoot, ring
resize(a, hw, ring) ==
    [i \in 1 .. hw[1] |-> [j \in 1 .. hw[2] |->
        a[((i - 1) * Len(a)) \div hw[1] + 1][((j - 1) * Len(a[1])) \div hw[2] + 1] + ring]]

\* np.maximum(0, a)
maximum0_none(a) == a
maximum0(a) ==
    [i \in DOMAIN a |-> [j \in DOMAIN a[i] |-> IF a[i][j] < 0 THEN 0 ELSE a[i][j]]]

\* bp1 = 1 - (1 / ARGS.avg_window)
bp1 == One - Div(One, avg_window * One)

\* AdamOptimizer.__init__(params, step_size, bp1)
AdamOptimizer(params) ==
    [params |-> params, step |-> 0, xy |-> <<0, 0>>,
     g1 |-> zeros_like(params), g2 |-> zeros_like(params), p1 |-> zeros_like(params)]

\* AdamOptimizer.update, given the gradient opfunc(self.params) returns:
\* the optimizer after the call and the averaged iterate it returns
AdamOptimizer_update(o, grad) ==
    LET step == o.step + 1
        g1 == axpy(One - b1, grad, Scaled(o.g1, b1))
        g2 == axpy(One - b2, Squared(grad), Scaled(o.g2, b2))
        ss == Div(Mul(step_size, Sqrt(One - Pow(b2, step))), One - Pow(b1, step))
        stp == AdamStep(g1, g2)
        params == axpy(0 - ss, stp, o.params)
        p1 == axpy(One - bp1, params, Scaled(o.p1, bp1))
    IN  [opt |-> [o EXCEPT !.step = step, !.g1 = g1, !.g2 = g2,
                           !.params = params, !.p1 = p1],
         avg |-> Over(roll2(p1, Neg(o.xy)), One - Pow(bp1, step))]

\* AdamOptimizer.roll(xy)
AdamOptimizer_roll(o, xy) ==
    IF xy = <<0, 0>> THEN o
    ELSE [o EXCEPT !.xy = <<@[1] + xy[1], @[2] + xy[2]>>,
                   !.g1 = roll2(@, xy), !.g2 = roll2(@, xy), !.p1 = roll2(@, xy)]

\* AdamOptimizer.set_params(last_iterate); ring: the overshoot of the
\* resampling filters
AdamOptimizer_set_params_p1kept(o, last_iterate, ring) ==
    [o EXCEPT !.params = last_iterate,
              !.g1 = resize(@, Shape(last_iterate), ring),
              !.g2 = maximum0(resize(@, Shape(last_iterate), ring))]
AdamOptimizer_set_params(o, last_iterate, ring) ==
    [o EXCEPT !.params = last_iterate,
              !.g1 = resize(@, Shape(last_iterate), ring),
              !.g2 = maximum0(resize(@, Shape(last_iterate), ring)),
              !.p1 = resize(@, Shape(last_iterate), ring)]

\* AdamOptimizer.restore_state(optimizer): adopt the buffers, the step and a
\* copy of xy, then self.roll(-self.xy)
AdamOptimizer_restore_state_step0(o, other) ==
    AdamOptimizer_roll([o EXCEPT !.params = other.params, !.g1 = other.g1,
                                 !.g2 = other.g2, !.p1 = other.p1,
                                 !.xy = other.xy],
                       Neg(other.xy))
AdamOptimizer_restore_state(o, other) ==
    AdamOptimizer_roll([o EXCEPT !.params = other.params, !.g1 = other.g1,
                                 !.g2 = other.g2, !.p1 = other.p1,
                                 !.step = other.step, !.xy = other.xy],
                       Neg(other.xy))

\* an image array of shape hw (its elements differ by position), and the
\* gradient arrays opfunc may return for it
ImageOf(hw) == [i \in 1 .. hw[1] |-> [j \in 1 .. hw[2] |-> One * (2 * i + j)]]
Grads == {0 - 2 * One, 0, One}
GradOf(hw, g) == [i \in 1 .. hw[1] |-> [j \in 1 .. hw[2] |-> g * (i + j - 1)]]
\* the overshoot the resampling filters may add
Ringing == {0 - 1, 0}

\* the history of the calls: the last call and its argument, the optimizer
\* before the last roll or set_params, the optimizer before a roll(o), roll(-o) pair that
\* has just completed, the sum of the offsets rolled since construction or
\* restore, this iteration's jitter, the number of outputs recorded, the
\* averaged iterate the last update returned, whether every call since
\* construction was an update with a zero gradient, and the net shift
\* model.roll has given the image (the array params), now and in the
\* pickled state; and the step counter and the number of updates made when
\* this run's optimizer was built
NoCall ==
    [op |-> "init", arg |-> <<>>, pre |-> <<>>, pairPre |-> <<>>,
     rollSum |-> <<0, 0>>, jitter |-> <<0, 0>>, recorded |-> 0,
     avg |-> <<>>, zeroRun |-> TRUE,
     imgShift |-> <<0, 0>>, savedShift |-> <<0, 0>>,
     step0 |-> 0, calls0 |-> 0]

\* a call of one of the optimizer's methods by any caller, in any order
\* (phase "api"), bounded to MaxCalls calls
ApiCall == phase = "api" /\ calls < MaxCalls

\* optimizer.update(opfunc): by any caller, or by transfer between the
\* forward and the backward jitter
AdamUpdate ==
    /\ phase \in {"api", "jittered"}
    /\ calls < MaxCalls
    /\ \E g \in Grads :
          LET r == AdamOptimizer_update(optimizer, GradOf(Shape(optimizer.params), g))
          IN  /\ optimizer' = r.opt
              /\ hist' = [hist EXCEPT !.op = "update", !.arg = <<>>, !.pre = <<optimizer>>,
                                      !.pairPre = <<>>, !.avg = r.avg,
                                      !.zeroRun = @ /\ g = 0]
    /\ phase' = IF phase = "api" THEN "api" ELSE "updated"
    /\ calls' = calls + 1
    /\ UNCHANGED saved
    /\ UNCHANGED <<supVars, poolVars, workerVars, MKL_THREADS, shm, log, roundLog,
                   raised, tileVars, mainVars, consumed, asmVars, extVars>>

\* optimizer.roll(xy)
AdamRoll ==
    /\ ApiCall
    /\ \E xy \in Offsets :
          /\ optimizer' = AdamOptimizer_roll(optimizer, xy)
          /\ hist' = [hist EXCEPT
                 !.op = "roll", !.zeroRun = FALSE, !.arg = xy, !.pre = <<optimizer>>,
                 !.pairPre = IF hist.op = "roll" /\ hist.arg = Neg(xy)
                             THEN hist.pre ELSE <<>>,
                 !.rollSum = <<@[1] + xy[1], @[2] + xy[2]>>]
    /\ calls' = calls + 1
    /\ UNCHANGED <<saved, phase>>
    /\ UNCHANGED <<supVars, poolVars, workerVars, MKL_THREADS, shm, log, roundLog,
                   raised, tileVars, mainVars, consumed, asmVars, extVars>>

\* optimizer.set_params(last_iterate), for an iterate of any shape
AdamSetParams ==
    /\ ApiCall
    /\ \E hw \in Shapes : \E ring \in Ringing :
          /\ optimizer' = AdamOptimizer_set_params(optimizer, ImageOf(hw), ring)
          /\ hist' = [hist EXCEPT !.op = "set_params", !.zeroRun = FALSE, !.arg = <<hw, ring>>,
                                  !.pre = <<optimizer>>, !.pairPre = <<>>]
    /\ calls' = calls + 1
    /\ UNCHANGED <<saved, phase>>
    /\ UNCHANGED <<supVars, poolVars, workerVars, MKL_THREADS, shm, log, roundLog,
                   raised, tileVars, mainVars, consumed, asmVars, extVars>>

\* StyleTransfer.save_state: pickle.dump(self.optimizer, f)
AdamSave ==
    /\ ApiCall
    /\ saved' = <<optimizer>>
    /\ calls' = calls + 1
    /\ hist' = [hist EXCEPT !.op = "save_state", !.zeroRun = FALSE, !.arg = <<>>, !.pre = <<>>,
                            !.pairPre = <<>>]
    /\ UNCHANGED <<optimizer, phase>>
    /\ UNCHANGED <<supVars, poolVars, workerVars, MKL_THREADS, shm, log, roundLog,
                   raised, tileVars, mainVars, consumed, asmVars, extVars>>

\* a new AdamOptimizer restores the pickled state
AdamRestoreState ==
    /\ ApiCall
    /\ saved # <<>>
    /\ optimizer' = AdamOptimizer_restore_state(
                        AdamOptimizer(ImageOf(Shape(saved[1].params))), saved[1])
    /\ calls' = calls + 1
    /\ hist' = [hist EXCEPT !.op = "restore_state", !.zeroRun = FALSE, !.arg = <<>>, !.pre = <<>>,
                            !.pairPre = <<>>, !.rollSum = <<0, 0>>]
    /\ UNCHANGED <<saved, phase>>
    /\ UNCHANGED <<supVars, poolVars, workerVars, MKL_THREADS, shm, log, roundLog,
                   raised, tileVars, mainVars, consumed, asmVars, extVars>>

InitAdam ==
    /\ ExtIdle
    /\ DriverIdle
    /\ TilesIdle
    /\ \E hw \in Shapes : optimizer = AdamOptimizer(ImageOf(hw))
    /\ saved = <<>>
    /\ phase = "api"
    /\ calls = 0
    /\ hist = NoCall

NextAdam ==
    \/ AdamUpdate
    \/ AdamRoll
    \/ AdamSetParams
    \/ AdamSave
    \/ AdamRestoreState

SpecAdam == InitAdam /\ [][NextAdam]_vars

\* ------------------------------------------- the optimizer in transfer
\* The optimizer as StyleTransfer.transfer and main drive it: every
\* iteration rolls the image and the optimizer forward, updates and rolls
\* them back; an interrupt ends the run and main pickles the optimizer; a
\* later run started with --state restores it.  self.model.img and
\* optimizer.params are one array, so model.roll rolls params.

\* Forward jitter: self.model.roll(xy, jitter_scale) and
\* self.optimizer.roll(xy * jitter_scale); xy is (0, 0) for an image that
\* fits in one tile
ForwardJitter ==
    /\ phase = "loop"
    /\ calls < MaxSteps
    /\ \E xy \in Offsets :
          /\ optimizer' = AdamOptimizer_roll(
                              [optimizer EXCEPT !.params = roll2(@, xy)], xy)
          /\ hist' = [hist EXCEPT !.op = "jitter", !.zeroRun = FALSE, !.arg = xy, !.pre = <<>>,
                                  !.pairPre = <<>>, !.jitter = xy,
                                  !.imgShift = <<@[1] + xy[1], @[2] + xy[2]>>]
    /\ phase' = "jittered"
    /\ UNCHANGED <<saved, calls>>
    /\ UNCHANGED <<supVars, poolVars, workerVars, MKL_THREADS, shm, log, roundLog,
                   raised, tileVars, mainVars, consumed, asmVars, extVars>>

\* Backward jitter, after which the iteration's output is recorded
BackwardJitter ==
    /\ phase = "updated"
    /\ optimizer' = AdamOptimizer_roll(
                        [optimizer EXCEPT !.params = roll2(@, Neg(hist.jitter))],
                        Neg(hist.jitter))
    /\ hist' = [hist EXCEPT !.op = "jitter_back", !.zeroRun = FALSE, !.arg = Neg(hist.jitter),
                            !.pre = <<>>, !.pairPre = <<>>,
                            !.recorded = @ + 1,
                            !.imgShift = <<@[1] - hist.jitter[1], @[2] - hist.jitter[2]>>]
    /\ phase' = "loop"
    /\ UNCHANGED <<saved, calls>>
    /\ UNCHANGED <<supVars, poolVars, workerVars, MKL_THREADS, shm, log, roundLog,
                   raised, tileVars, mainVars, consumed, asmVars, extVars>>

\* KeyboardInterrupt anywhere in the loop; between the jitters it may come
\* inside update, after self.step += 1 and before opfunc returns.  main
\* catches it and, if an output has been recorded, saves the state.
InterruptSave ==
    /\ phase \in {"loop", "jittered", "updated"}
    /\ \E inUpdate \in {FALSE, phase = "jittered"} :
          LET o == IF inUpdate THEN [optimizer EXCEPT !.step = @ + 1]
                   ELSE optimizer
          IN  /\ optimizer' = o
              /\ saved' = IF hist.recorded > 0 THEN <<o>> ELSE saved
    /\ phase' = "interrupted"
    /\ hist' = [hist EXCEPT !.op = "interrupt", !.zeroRun = FALSE, !.arg = <<>>, !.pre = <<>>,
                            !.pairPre = <<>>,
                            !.savedShift = IF hist.recorded > 0 THEN hist.imgShift ELSE @]
    /\ UNCHANGED calls
    /\ UNCHANGED <<supVars, poolVars, workerVars, MKL_THREADS, shm, log, roundLog,
                   raised, tileVars, mainVars, consumed, asmVars, extVars>>

\* a later run with --state: state = pickle.load(...), and at the first
\* scale a new AdamOptimizer restores it; self.model.img =
\* self.optimizer.params
Resume ==
    /\ phase = "interrupted"
    /\ saved # <<>>
    /\ optimizer' = AdamOptimizer_restore_state(
                        AdamOptimizer(ImageOf(Shape(saved[1].params))), saved[1])
    /\ hist' = [NoCall EXCEPT !.op = "restore_state", !.zeroRun = FALSE,
                              !.imgShift = hist.savedShift,
                              !.savedShift = hist.savedShift,
                              !.step0 = optimizer'.step,
                              !.calls0 = calls]
    /\ phase' = "loop"
    /\ UNCHANGED <<saved, calls>>
    /\ UNCHANGED <<supVars, poolVars, workerVars, MKL_THREADS, shm, log, roundLog,
                   raised, tileVars, mainVars, consumed, asmVars, extVars>>

InitResume ==
    /\ ExtIdle
    /\ DriverIdle
    /\ TilesIdle
    /\ \E hw \in Shapes : optimizer = AdamOptimizer(ImageOf(hw))
    /\ saved = <<>>
    /\ phase = "loop"
    /\ calls = 0
    /\ hist = NoCall

NextResume ==
    \/ ForwardJitter
    \/ AdamUpdate
    \/ BackwardJitter
    \/ InterruptSave
    \/ Resume

SpecResume == InitResume /\ [][NextResume]_vars

\* ------------------------------------------------- the rolls of a model
\* CaffeModel.roll applied to one process's model and undone (SpecRoll):
\* by transfer around the optimizer update and by prepare_features around a
\* pass in the supervising process, by process_one_request around a
\* gradient tile in a worker. A layer is named by its scale factor.

\* roll_features(self, feats, xy, jitter_scale=32)
DefaultJitterScale == 32

\* the image sizes of SpecRoll: small ones, and one wide enough for
\* prepare_features to draw an offset other than zero
RollSizes == {<<1, 4>>, <<2, 3>>, <<1, DefaultJitterScale + 2>>}

\* an array of the shape hw whose cells differ
Cells(hw) == [i \in 1 .. hw[1] |-> [j \in 1 .. hw[2] |-> (i - 1) * hw[2] + j]]

\* the arrays of the layers ls for an image of size hw
LayerArrays(ls, hw) ==
    [l \in ls |-> Cells(<<CeilDiv(hw[1], l), CeilDiv(hw[2], l)>>)]

\* xy * jitter_scale and xy // scale on a pair
Times(xy, k) == <<xy[1] * k, xy[2] * k>>
FloorDiv(xy, s) == <<xy[1] \div s, xy[2] \div s>>

\* roll_features: xy = xy * jitter_scale; feats[layer][:] = roll2(feat, xy // scale)
roll_features(feats, xy, jitter_scale) ==
    [l \in DOMAIN feats |-> roll2(feats[l], FloorDiv(Times(xy, jitter_scale), l))]

\* CaffeModel.roll(xy, jitter_scale)
CaffeModel_roll(m, xy, jitter_scale) ==
    [features |-> roll_features(m.features, xy, jitter_scale),
     cmasks |-> roll_features(m.cmasks, xy, jitter_scale),
     smasks |-> roll_features(m.smasks, xy, jitter_scale),
     img |-> roll2(m.img, Times(xy, jitter_scale))]

\* transfer: the scale factor of the first of the layers that is a content
\* layer; the layers are listed deepest first
JitterScale(contentLayers) ==
    CHOOSE l \in contentLayers : \A k \in contentLayers : k <= l

\* np.int32(np.random.uniform(-0.5, 0.5, size=2) * img_size) // jitter_scale,
\* and (0, 0) for an image of one tile
Draws(n) == (0 - (n \div 2)) .. (CeilDiv(n, 2) - 1)
TransferOffsets(hw, jitter_scale) ==
    {FloorDiv(r, jitter_scale) : r \in Draws(hw[1]) \X Draws(hw[2])} \union {<<0, 0>>}

\* prepare_features: np.int32(np.random.uniform(size=2) * img_size) // 32,
\* and (0, 0) in the first pass
PassOffsets(hw) ==
    {FloorDiv(r, DefaultJitterScale) : r \in (0 .. (hw[1] - 1)) \X (0 .. (hw[2] - 1))}

\* a roll and its arguments
RollOf(site, xy, jitter_scale) ==
    [site |-> site, xy |-> xy, jitter_scale |-> jitter_scale]

\* the first roll of a pair
RollBy(r) ==
    /\ jitter_xy = <<>>
    /\ model_refs' = CaffeModel_roll(model_refs, r.xy, r.jitter_scale)
    /\ jitter_xy' = <<r>>
    /\ roll_hist' = [pre |-> model_refs, last |-> r, restored |-> FALSE]
    /\ UNCHANGED roll_cfg
    /\ UNCHANGED <<supVars, poolVars, workerVars, MKL_THREADS, shm, log, roundLog,
                   raised, tileVars, adamVars, mainVars, consumed, asmVars, msVars,
                   budgetVars, evalVars>>

\* transfer, forward jitter: self.model.roll(xy, jitter_scale=jitter_scale)
TransferRoll ==
    /\ roll_cfg.proc = "supervisor"
    /\ \E xy \in TransferOffsets(Shape(model_refs.img), JitterScale(roll_cfg.content_layers)) :
          RollBy(RollOf("transfer", xy, JitterScale(roll_cfg.content_layers)))

\* prepare_features, before a pass: self.roll(xy)
PassRoll ==
    /\ roll_cfg.proc = "supervisor"
    /\ \E xy \in PassOffsets(Shape(model_refs.img)) :
          RollBy(RollOf("prepare_features", xy, DefaultJitterScale))

\* process_one_request, SCGradRequest: self.model.roll(req.roll, jitter_scale=1),
\* req.roll being transfer's xy * jitter_scale
WorkerRoll ==
    /\ roll_cfg.proc = "worker"
    /\ \E xy \in TransferOffsets(Shape(model_refs.img), JitterScale(roll_cfg.content_layers)) :
          RollBy(RollOf("process_one_request",
                        Times(xy, JitterScale(roll_cfg.content_layers)), 1))

\* the second roll of a pair: roll(-xy, jitter_scale) with the arguments of
\* the first
RollBack ==
    /\ jitter_xy # <<>>
    /\ model_refs' = CaffeModel_roll(model_refs, Neg(jitter_xy[1].xy),
                                     jitter_xy[1].jitter_scale)
    /\ jitter_xy' = <<>>
    /\ roll_hist' = [roll_hist EXCEPT !.restored = TRUE]
    /\ UNCHANGED roll_cfg
    /\ UNCHANGED <<supVars, poolVars, workerVars, MKL_THREADS, shm, log, roundLog,
                   raised, tileVars, adamVars, mainVars, consumed, asmVars, msVars,
                   budgetVars, evalVars>>

\* a model with content features for its content layers and masks for
\* every layer (make_layer_masks), in the supervisor or in a worker
InitRoll ==
    /\ MsIdle
    /\ BudgetIdle
    /\ EvalIdle
    /\ DriverIdle
    /\ TilesIdle
    /\ AdamIdle
    /\ roll_cfg \in [proc : {"supervisor", "worker"},
                     content_layers : (SUBSET Strides) \ {{}}]
    /\ \E hw \in RollSizes :
          model_refs = [features |-> LayerArrays(roll_cfg.content_layers, hw),
                        cmasks |-> LayerArrays(Strides, hw),
                        smasks |-> LayerArrays(Strides, hw),
                        img |-> Cells(hw)]
    /\ jitter_xy = <<>>
    /\ roll_hist = [pre |-> model_refs, last |-> RollOf("none", <<0, 0>>, 1),
                    restored |-> FALSE]

NextRoll ==
    \/ TransferRoll
    \/ PassRoll
    \/ WorkerRoll
    \/ RollBack

SpecRoll == InitRoll /\ [][NextRoll]_vars

\* ------------------------------------------------ transfer_multiscale
\* transfer_multiscale and the optimizer it drives, for any --size,
\* --min-size and --iterations and with or without --state
\* (SpecMultiscale). The image of a scale is one row of size pixels.

\* round(size / np.sqrt(2)): the nearest integer n, (2n-1)^2 < 2 size^2 <
\* (2n+1)^2
RoundDivSqrt2(size) ==
    IF size = 0 THEN 0
    ELSE CHOOSE n \in 0 .. size :
             /\ (2 * n - 1) * (2 * n - 1) < 2 * size * size
             /\ 2 * size * size < (2 * n + 1) * (2 * n + 1)

\* reversed(sizes)
Reversed(q) == [k \in 1 .. Len(q) |-> q[Len(q) + 1 - k]]

\* ARGS.iterations[min(i, len(ARGS.iterations)-1)]
IterationsAt_first(iterations, i) == iterations[1]
IterationsAt(iterations, i) ==
    iterations[(IF i < Len(iterations) - 1 THEN i ELSE Len(iterations) - 1) + 1]

\* steps: the sum of ARGS.iterations[min(i, len(ARGS.iterations)-1)] over
\* range(len(sizes)), which callback.set_steps announces
RECURSIVE TotalSteps(_, _)
TotalSteps(iterations, n) ==
    IF n = 0 THEN 0
    ELSE TotalSteps(iterations, n - 1) + IterationsAt(iterations, n - 1)

\* the schedules --iterations may give, and the states --state may load
Schedules ==
    UNION {[1 .. n -> 0 .. MaxIters] : n \in 1 .. MaxSchedule}
SavedStates ==
    {None,
     <<AdamOptimizer_update(AdamOptimizer(ImageOf(<<1, 2>>)), GradOf(<<1, 2>>, One)).opt>>}

\* the offsets of the forward jitter of an iteration, in pixels
Jitters == {<<0, 0>>, <<1, 0>>}

msRest == <<supVars, poolVars, workerVars, MKL_THREADS, shm, log, roundLog,
            raised, tileVars, saved, phase, calls, hist, mainVars, consumed,
            asmVars, rollVars, ARGS, initial_state, budgetVars, evalVars>>

\* one turn of the loop that builds sizes: size = round(size / np.sqrt(2));
\* break if size < ARGS.min_size, else sizes.append(size); after the break
\* the steps are summed and announced (callback.set_steps). Of a list
\* longer than MaxSizes only the first MaxSizes entries and the parity of
\* the number of further ones are kept.
SizesStep ==
    /\ ms.pc = "sizes"
    /\ ms' = IF RoundDivSqrt2(ms.size) < ARGS.min_size
             THEN [ms EXCEPT !.size = RoundDivSqrt2(ms.size), !.pc = "scale",
                             !.steps = <<TotalSteps(ARGS.iterations, Len(ms.sizes))>>]
             ELSE IF Len(ms.sizes) < MaxSizes
             THEN [ms EXCEPT !.size = RoundDivSqrt2(ms.size),
                             !.sizes = Append(@, RoundDivSqrt2(ms.size))]
             ELSE [ms EXCEPT !.size = RoundDivSqrt2(ms.size),
                             !.more = (@ + 1) % 2]
    /\ UNCHANGED optimizer
    /\ UNCHANGED msRest

\* the optimizer the first-scale branch builds over the image:
\* AdamOptimizer(self.model.img, ...), restore_state(initial_state) if given,
\* and if the restored iterate has another shape, set_params of it resized
FirstScaleOptimizer(image, state, ring) ==
    IF state = None THEN AdamOptimizer(image)
    ELSE LET o == AdamOptimizer_restore_state(AdamOptimizer(image), state[1])
         IN  IF Shape(image) # Shape(o.params)
             THEN AdamOptimizer_set_params(o, resize(o.params, Shape(image), ring), ring)
             ELSE o

\* the top of the loop over reversed(sizes), up to the call of transfer: if
\* output_image, the last output resized becomes the iterate of the same
\* optimizer (set_params); else a fresh image and a new AdamOptimizer
ScaleTop ==
    /\ ms.pc = "scale"
    /\ \E ring \in Ringing :
          LET hw == <<1, Reversed(ms.sizes)[ms.i + 1]>>
              later == ms.output_image # None
          IN  /\ optimizer' =
                    IF later
                    THEN AdamOptimizer_set_params(optimizer,
                             resize(ms.output_raw[1], hw, ring), ring)
                    ELSE FirstScaleOptimizer(ImageOf(hw), initial_state, ring)
              /\ ms' = [ms EXCEPT
                    !.pc = "transfer",
                    !.iters_i = IterationsAt(ARGS.iterations, ms.i),
                    !.step = 0,
                    !.processed = Append(@, hw[2]),
                    !.first_at = IF later THEN @ ELSE @ \union {ms.i},
                    !.resized = IF later THEN ms.output_raw ELSE None,
                    !.optimizers = IF later THEN @ ELSE @ + 1]
    /\ UNCHANGED msRest

\* one iteration of transfer: forward jitter, optimizer.update (for one
\* gradient), backward jitter, and the record of the averaged iterate as the
\* current output
TransferIteration ==
    /\ ms.pc = "transfer"
    /\ ms.step < ms.iters_i
    /\ \E xy \in Jitters :
          LET g == One
              o1 == AdamOptimizer_roll(
                        [optimizer EXCEPT !.params = roll2(@, xy)], xy)
              r == AdamOptimizer_update(o1, GradOf(Shape(o1.params), g))
              o2 == AdamOptimizer_roll(
                        [r.opt EXCEPT !.params = roll2(@, Neg(xy))], Neg(xy))
          IN  /\ optimizer' = o2
              /\ ms' = [ms EXCEPT !.step = @ + 1,
                                  !.current_raw = <<r.avg>>,
                                  !.current_output = <<ms.i, ms.step + 1>>,
                                  !.updates = @ + 1,
                                  !.callbacks = @ + 1]
    /\ UNCHANGED msRest

\* transfer returns self.current_output; output_raw = self.current_raw; the
\* next scale, or the return of transfer_multiscale
TransferReturn ==
    /\ ms.pc = "transfer"
    /\ ms.step = ms.iters_i
    /\ ms' = [ms EXCEPT !.output_image = ms.current_output,
                        !.output_raw = ms.current_raw,
                        !.ran = Append(@, ms.step),
                        !.i = @ + 1,
                        !.pc = IF ms.i + 1 < Len(ms.sizes) THEN "scale" ELSE "done"]
    /\ UNCHANGED optimizer
    /\ UNCHANGED msRest

\* transfer_multiscale is called: size = ARGS.size, sizes = [ARGS.size]
InitMultiscale ==
    /\ RollIdle
    /\ BudgetIdle
    /\ EvalIdle
    /\ DriverIdle
    /\ TilesIdle
    /\ AdamIdle
    /\ ARGS \in [size : 1 .. MaxSize, min_size : 1 .. MaxSize, iterations : Schedules]
    /\ initial_state \in SavedStates
    /\ ms = [pc |-> "sizes", size |-> ARGS.size, sizes |-> <<ARGS.size>>, i |-> 0,
             output_image |-> None, output_raw |-> None,
             current_output |-> None, current_raw |-> None,
             iters_i |-> 0, step |-> 0,
             processed |-> <<>>, first_at |-> {}, resized |-> None,
             optimizers |-> 0, updates |-> 0,
             steps |-> None, callbacks |-> 0, ran |-> <<>>, more |-> 0]

\* ------------------------------------------------ the thread budget alone
\* TileWorkerPool.request(req): the job count
BudgetRequest ==
    /\ pool_budget.req_count < MaxJobs
    /\ pool_budget' = [pool_budget EXCEPT !.req_count = @ + 1]
    /\ UNCHANGED <<supVars, poolVars, workerVars, MKL_THREADS, shm, log, roundLog,
                   raised, tileVars, adamVars, mainVars, consumed, asmVars,
                   rollVars, msVars, threads_per_process, evalVars>>

\* TileWorkerPool.reset_next_worker() with MKL present: one SetThreadCount
\* message per worker (kept with the job count it was computed from), then
\* req_count = 0; the workers have taken the messages of the reset before
BudgetReset ==
    /\ \A w \in 1 .. pool_budget.workers : pool_budget.req_q[w] = <<>>
    /\ pool_budget' =
          [pool_budget EXCEPT
              !.req_q = [w \in 1 .. pool_budget.workers |->
                           <<[threads |-> ThreadsPerProcessOf(pool_budget.MKL_THREADS,
                                              pool_budget.workers,
                                              pool_budget.req_count),
                              jobs |-> pool_budget.req_count]>>],
              !.req_count = 0]
    /\ UNCHANGED <<supVars, poolVars, workerVars, MKL_THREADS, shm, log, roundLog,
                   raised, tileVars, adamVars, mainVars, consumed, asmVars,
                   rollVars, msVars, threads_per_process, evalVars>>

\* process_one_request, SetThreadCount branch, in worker w:
\* set_thread_count(req.threads)
BudgetApply(w) ==
    /\ w \in 1 .. pool_budget.workers
    /\ pool_budget.req_q[w] # <<>>
    /\ pool_budget' =
          [pool_budget EXCEPT
              !.req_q[w] = <<>>,
              !.applied[w] = <<[cap |-> ThreadCap(pool_budget.req_q[w][1].threads),
                                jobs |-> pool_budget.req_q[w][1].jobs]>>]
    /\ UNCHANGED <<supVars, poolVars, workerVars, MKL_THREADS, shm, log, roundLog,
                   raised, tileVars, adamVars, mainVars, consumed, asmVars,
                   rollVars, msVars, threads_per_process, evalVars>>

\* a pool of 1 .. MaxPool workers under a budget of 1 .. MklMax threads, no
\* job requested and no cap set by the pool yet
InitBudget ==
    /\ RollIdle
    /\ MsIdle
    /\ DriverIdle
    /\ TilesIdle
    /\ AdamIdle
    /\ EvalIdle
    /\ threads_per_process = 1
    /\ \E m \in 1 .. MklMax, n \in 1 .. MaxPool :
          pool_budget = [MKL_THREADS |-> m, workers |-> n, req_count |-> 0,
                         req_q |-> [w \in 1 .. n |-> <<>>],
                         applied |-> [w \in 1 .. n |-> <<>>]]

NextBudget ==
    \/ BudgetRequest
    \/ BudgetReset
    \/ \E w \in 1 .. MaxPool : BudgetApply(w)

SpecBudget == InitBudget /\ [][NextBudget]_vars

NextMultiscale ==
    \/ SizesStep
    \/ ScaleTop
    \/ TransferIteration
    \/ TransferReturn

SpecMultiscale == InitMultiscale /\ [][NextMultiscale]_vars

\* transfer_multiscale is straight-line code of the one supervising
\* process: the loop that builds sizes takes its next turn whenever it has
\* one
SpecMultiscaleLive ==
    InitMultiscale /\ [][NextMultiscale]_vars /\ WF_ms(SizesStep)

\* ------------------------------------------- the layers of one evaluation
\* CaffeModel.layers(): the network's layers from the input's side, the
\* input blob 'data' (0 here) left out
model_layers == [k \in 1 .. NumLayers |-> k]

\* [layer for layer in seq if layer in wanted]
RECURSIVE LayersIn(_, _)
LayersIn(seq, wanted) ==
    IF seq = <<>> THEN <<>>
    ELSE (IF Head(seq) \in wanted THEN <<Head(seq)>> ELSE <<>>)
             \o LayersIn(Tail(seq), wanted)

evalRest == <<supVars, poolVars, workerVars, MKL_THREADS, shm, log, roundLog,
              raised, tileVars, adamVars, mainVars, consumed, asmVars, rollVars,
              msVars, budgetVars>>

\* preprocess_images: the layers to visit during the backward pass
PreprocessLayers ==
    /\ sc_eval.pc = "preprocess_images"
    /\ sc_eval' = [sc_eval EXCEPT
          !.layers = LayersIn(Reversed(model_layers),
                              sc_eval.content_layers \union sc_eval.style_layers),
          !.pc = "transfer"]
    /\ UNCHANGED evalRest

\* transfer, an iteration up to the SCGradRequest of a tile: the forward
\* jitter takes layer_info([l for l in layers if l in content_layers][0]),
\* an IndexError if no such layer; eval_sc_grad then requests the tile
TransferRequest ==
    /\ sc_eval.pc = "transfer"
    /\ sc_eval' = IF LayersIn(sc_eval.layers, sc_eval.content_layers) = <<>>
                  THEN [sc_eval EXCEPT !.pc = "IndexError"]
                  ELSE [sc_eval EXCEPT !.pc = "SCGradRequest"]
    /\ UNCHANGED evalRest

\* process_one_request, SCGradRequest branch: the layers it hands to
\* eval_sc_grad_tile
WorkerLayers ==
    /\ sc_eval.pc = "SCGradRequest"
    /\ sc_eval' = [sc_eval EXCEPT
          !.wlayers = LayersIn(Reversed(model_layers),
                               sc_eval.content_layers \union sc_eval.style_layers
                                   \union sc_eval.dd_layers),
          !.pc = "eval_sc_grad_tile"]
    /\ UNCHANGED evalRest

\* eval_sc_grad_tile: the gradient buffers are zeroed and
\* self.net.forward(end=layers[0]) runs, an IndexError on an empty list
EvalForward ==
    /\ sc_eval.pc = "eval_sc_grad_tile"
    /\ sc_eval' = IF sc_eval.wlayers = <<>>
                  THEN [sc_eval EXCEPT !.pc = "IndexError"]
                  ELSE [sc_eval EXCEPT !.forward = <<sc_eval.wlayers[1]>>,
                                       !.i = 0, !.pc = "layer_loop"]
    /\ UNCHANGED evalRest

\* eval_sc_grad_tile: one turn of the loop over layers: the content, style
\* and dd terms of the layer go into self.diff[layer], then
\* self.net.backward(start=layer, end=layers[i+1]), or
\* self.net.backward(start=layer) down to the input for the last layer
EvalLayer ==
    /\ sc_eval.pc = "layer_loop"
    /\ sc_eval.i < Len(sc_eval.wlayers)
    /\ LET layer == sc_eval.wlayers[sc_eval.i + 1]
       IN  sc_eval' = [sc_eval EXCEPT
             !.visited = Append(@, layer),
             !.terms = @ \union
                 (IF layer \in sc_eval.content_layers THEN {<<"content", layer>>} ELSE {})
                 \union
                 (IF layer \in sc_eval.style_layers THEN {<<"style", layer>>} ELSE {})
                 \union
                 (IF layer \in sc_eval.dd_layers THEN {<<"dd", layer>>} ELSE {}),
             !.backward = Append(@, IF sc_eval.i + 1 = Len(sc_eval.wlayers)
                                    THEN <<layer, 0>>
                                    ELSE <<layer, sc_eval.wlayers[sc_eval.i + 2]>>),
             !.i = @ + 1]
    /\ UNCHANGED evalRest

\* eval_sc_grad_tile returns loss, self.diff['data']
EvalReturn ==
    /\ sc_eval.pc = "layer_loop"
    /\ sc_eval.i = Len(sc_eval.wlayers)
    /\ sc_eval' = [sc_eval EXCEPT !.pc = "done"]
    /\ UNCHANGED evalRest

\* --content-layers, --style-layers and --dd-layers (nargs='*') may each
\* name any of the network's layers, or none
InitLayers ==
    /\ RollIdle
    /\ MsIdle
    /\ BudgetIdle
    /\ DriverIdle
    /\ TilesIdle
    /\ AdamIdle
    /\ \E c \in SUBSET (1 .. NumLayers), st \in SUBSET (1 .. NumLayers),
          dd \in SUBSET (1 .. NumLayers) :
          sc_eval = [pc |-> "preprocess_images", content_layers |-> c,
                     style_layers |-> st, dd_layers |-> dd, layers |-> <<>>,
                     wlayers |-> <<>>, forward |-> None, i |-> 0,
                     visited |-> <<>>, terms |-> {}, backward |-> <<>>]

NextLayers ==
    \/ PreprocessLayers
    \/ TransferRequest
    \/ WorkerLayers
    \/ EvalForward
    \/ EvalLayer
    \/ EvalReturn

SpecLayers == InitLayers /\ [][NextLayers]_vars

\* ------------------------------------------------------------ properties
\* the defects of one sort that have happened so far
Defect(d) == {e \in log : e.defect = d}

\* the messages of one type on the workers' inbound queues
QueuedOfType(type) ==
    {<<w, i>> \in Workers \X (1 .. (MaxTiles + NumWorkers + MaxQueue + 2)) :
        i \in DOMAIN req_q[w] /\ req_q[w][i].type = type}

\* C1: at every scale no SCGradRequest is on any worker's inbound queue
\* unless every worker has processed the SetContentsAndStyles message of
\* that scale and the supervisor has consumed every acknowledgement; and no
\* worker evaluates a gradient job against reference data of another scale.
C1_ReferenceDataBarrier ==
    /\ \A j \in QueuedOfType("SCGradRequest") :
          /\ \A v \in Workers : wscale[v] = req_q[j[1]][j[2]].scale
          /\ QueuedOfType("SetContentsAndStyles") = {}
          /\ \A k \in DOMAIN resp_q : resp_q[k].type # "Ack"
    /\ Defect("stale reference data") = {}

\* a gradient job of the last scale has been evaluated, past the barriers
\* of every scale
C1_Witness ==
    /\ NumScales > 1
    /\ \E k \in DOMAIN resp_q :
          resp_q[k].type = "SCGradResponse" /\ resp_q[k].scale = NumScales
    /\ \A v \in Workers : wscale[v] = NumScales

\* set_contents_and_styles has returned and the scale's gradient rounds run
AfterSetContentsAndStyles == pc \in {"sc_grad", "sc_grad_collect"}

\* worker k's reference set equals the supervisor's lists entry for entry
HoldsExactly(k) ==
    /\ Len(wcontents[k]) = Len(contents)
    /\ Len(wstyles[k]) = Len(styles)
    /\ \A i \in DOMAIN wcontents[k] : i \in DOMAIN contents =>
          /\ \A l \in ContentLayers : wcontents[k][i].features[l].val = contents[i].features[l]
          /\ \A l \in Layers : wcontents[k][i].masks[l].val = contents[i].masks[l]
    /\ \A i \in DOMAIN wstyles[k] : i \in DOMAIN styles =>
          /\ \A l \in StyleLayers : wstyles[k][i].grams[l].val = styles[i].grams[l]
          /\ \A l \in Layers : wstyles[k][i].masks[l].val = styles[i].masks[l]

\* C2: after set_contents_and_styles(contents, styles) has returned, every
\* worker holds exactly len(contents) content entries and len(styles) style
\* entries, equal entry for entry to the supervisor's lists of the scale.
C2_PrivateReferenceSets ==
    AfterSetContentsAndStyles => \A k \in Workers : HoldsExactly(k)

\* the call has returned and the last worker holds more entries than the
\* supervisor's lists have
C2_Witness ==
    /\ AfterSetContentsAndStyles
    /\ Len(wcontents[NumWorkers - 1]) > Len(contents)
    /\ Len(wstyles[NumWorkers - 1]) > Len(styles)

\* C3: in every tiling round the i-th job issued (0-indexed) is put on the
\* inbound queue of worker i mod N, the first on worker 0, whatever earlier
\* rounds issued and whatever broadcasts happened in between.
C3_RoundRobin ==
    \A i \in DOMAIN roundLog : roundLog[i] = (i - 1) % NumWorkers

\* a round has issued more jobs than there are workers: the cursor wrapped
C3_Witness ==
    /\ Len(roundLog) = NumWorkers + 1
    /\ roundLog[NumWorkers + 1] = 0

\* C4: if any worker process has exited, with any exit status, the next
\* ensure_healthy() raises TileWorkerPoolError and tears the pool down (the
\* pool unhealthy, no worker left running).
C4_HealthDetection ==
    /\ Defect("exit not detected") = {}
    /\ Defect("raise without teardown") = {}

\* ensure_healthy has returned normally with a worker that has exited
C4_Witness ==
    /\ Defect("exit not detected") # {}
    /\ \E w \in Workers : exitcode[w] = <<0>>

\* C5: once ensure_healthy() has raised, the pool is never healthy again
\* (so every later ensure_healthy() raises) and no job or broadcast is put
\* on any worker's inbound queue.
C5_HealthBarrierAbsorbing ==
    raised => (~is_healthy /\ Unhealthy /\ Defect("put after raise") = {})

\* after the raise a message was put on a worker's inbound queue
C5_Witness ==
    /\ raised
    /\ ~is_healthy
    /\ Defect("put after raise") # {}

\* the supervisor is inside resp_q.get(): in a result loop, or in the
\* acknowledgement loop of set_contents_and_styles
InGet ==
    \/ pc \in {"features_collect", "sc_grad_collect"} /\ got < ntiles
    \/ pc = "set_contents_and_styles" /\ bw = NumWorkers /\ got < AcksToAwait

\* no response can arrive: the result queue is empty, and every worker has
\* exited or has nothing on its inbound queue
NoResponseToCome ==
    /\ resp_q = <<>>
    /\ \A w \in Workers : exitcode[w] # None \/ req_q[w] = <<>>

\* C6: if a worker exits while work is outstanding, the supervisor raises
\* the pool-malfunction error; it is never left inside resp_q.get() with a
\* worker dead and no response to come.
C6_NeverBlocksForever ==
    ~(InGet /\ NoResponseToCome /\ \E w \in Workers : exitcode[w] # None)

\* the supervisor waits in a result loop for the job of a worker killed by
\* a signal, which ensure_healthy would have detected
C6_Witness ==
    /\ pc = "sc_grad_collect"
    /\ got < ntiles
    /\ NoResponseToCome
    /\ ~raised
    /\ \E w \in Workers : exitcode[w] = <<SIGKILL>> /\ req_q[w] # <<>>

\* a run without failure so far: no worker has exited, and the supervisor
\* has neither been interrupted nor raised
NoFailure ==
    /\ \A w \in Workers : exitcode[w] = None
    /\ pc \notin {"raised", "interrupted", "crashed"}

\* a tiling round or a barrier has completed and the next has not begun
BetweenRounds ==
    \/ pc \in {"scale", "config_error", "transfer", "prepare_features", "done"}
    \/ pc \in {"features", "sc_grad"} /\ tile = 0
    \/ pc \in {"features_collect", "sc_grad_collect"} /\ got = ntiles
    \/ pc = "set_contents_and_styles" /\ bw = 0

\* C7: in a run without worker failure every region created is unlinked
\* once, by its designated process (a tile input by the receiving worker, a
\* result or a reference-data region by the supervisor), never twice, and
\* none is left linked when its round or barrier has completed.
C7_ExactlyOnceRelease ==
    NoFailure =>
        /\ Defect("unlink of an unlinked region") = {}
        /\ Defect("unlink by another process") = {}
        /\ BetweenRounds => DOMAIN shm = {}

\* the run has completed without failure: tiles, results and reference
\* data of every scale were created and released
C7_Witness ==
    /\ NoFailure
    /\ pc = "done"
    /\ scale = NumScales
    /\ ntiles = MaxTiles
    /\ DOMAIN shm = {}

\* C8: every region created during a run has been released when the run
\* ends, also when it ends through an error path.
C8_ReleaseOnEveryExit == RunEnded => DOMAIN shm = {}

\* the run has ended by the raise of ensure_healthy, no worker has anything
\* left to process, and regions are still linked
C8_Witness ==
    /\ pc = "raised"
    /\ \A w \in Workers : exitcode[w] # None
    /\ DOMAIN shm # {}

\* C9: no process maps or reads a region after it has been unlinked.
C9_NoUseAfterRelease == Defect("use after unlink") = {}

\* the supervisor has unlinked the reference regions of the last scale
\* after every worker mapped and copied them, and a worker has read and
\* then unlinked a tile of that scale
C9_Witness ==
    /\ pc = "sc_grad_collect"
    /\ scale = NumScales
    /\ \A w \in Workers : wscale[w] = NumScales /\ wcontents[w] # <<>>
    /\ \E k \in DOMAIN resp_q : resp_q[k].type = "SCGradResponse"
    /\ \A r \in DOMAIN shm : Kind(r) \notin {"ref", "tile"}

\* C10: a region is written only by the process that created it and only
\* before its handle is put on a queue.
C10_SingleWriter == Defect("write after hand-off") = {}

\* a worker that holds reference arrays has rolled them in place for a
\* gradient job and written the result region it then handed over
C10_Witness ==
    /\ \E k \in DOMAIN resp_q :
          /\ resp_q[k].type = "SCGradResponse"
          /\ resp_q[k].grad \in DOMAIN shm
          /\ RolledArrays(resp_q[k].grad.by) # {}

\* the tile loop has ended
TileLoopDone == tile_y = NTiles(img_size[1], tile_size)

\* the tiles dispatched so far that hold pixel (py, px)
TilesHolding(py, px) ==
    {k \in DOMAIN rects :
        /\ rects[k].start[1] <= py /\ py < rects[k].end[1]
        /\ rects[k].start[2] <= px /\ px < rects[k].end[2]}

\* C11: for every image size and tile_size the tile rectangles partition
\* the image: no pixel lies in two tiles, every tile lies inside the image,
\* and when the loop has ended every pixel lies in exactly one tile.
C11_TilingCover ==
    /\ \A k \in DOMAIN rects :
          /\ 0 <= rects[k].start[1] /\ rects[k].end[1] <= img_size[1]
          /\ 0 <= rects[k].start[2] /\ rects[k].end[2] <= img_size[2]
    /\ \A py \in 0 .. (img_size[1] - 1) : \A px \in 0 .. (img_size[2] - 1) :
          /\ Cardinality(TilesHolding(py, px)) <= 1
          /\ TileLoopDone => Cardinality(TilesHolding(py, px)) = 1

\* a grid of several rows and columns with a remainder on both axes has
\* been dispatched whole
C11_Witness ==
    /\ TileLoopDone
    /\ Len(rects) >= 4
    /\ img_size[1] % NTiles(img_size[1], tile_size) # 0
    /\ img_size[2] % NTiles(img_size[2], tile_size) # 0

\* ceil(S / T): the least n with n * T >= S
Ceil(S, T) == CHOOSE n \in 1 .. S : n * T >= S /\ \A m \in 1 .. (n - 1) : m * T < S

\* the edges of tile k along axis a (1: rows, 2: columns)
Edge(k, a) == rects[k].end[a] - rects[k].start[a]

\* C12: along every axis of length S the grid has n = ceil(S/T) tiles; a
\* tile that is not the last of its axis has edge floor(S/n) >= 1, the last
\* has edge floor(S/n) + (S mod n), and the edges of a row or column sum to S.
C12_TileGridShape ==
    /\ TileLoopDone =>
          Len(rects) = Ceil(img_size[1], tile_size) * Ceil(img_size[2], tile_size)
    /\ \A k \in DOMAIN rects : \A a \in {1, 2} :
          LET S == img_size[a]
              n == Ceil(S, tile_size)
          IN  /\ rects[k].xy[a] < n
              /\ S \div n >= 1
              /\ rects[k].start[a] = rects[k].xy[a] * (S \div n)
              /\ Edge(k, a) = IF rects[k].xy[a] = n - 1
                              THEN (S \div n) + (S % n) ELSE S \div n

\* a last tile strictly larger than the others of its axis, as in the
\* 256 / 100 example (3 tiles: 85, 85, 86), here 5 / 2 rows (1, 1, 3)
C12_Witness ==
    /\ TileLoopDone
    /\ \E k \in DOMAIN rects : \E j \in DOMAIN rects :
          /\ rects[k].xy[1] = 0
          /\ rects[j].xy[1] = Ceil(img_size[1], tile_size) - 1
          /\ rects[j].xy[1] >= 2
          /\ Edge(j, 1) > Edge(k, 1)

\* C13: every dispatched tile, the last of each row and column included,
\* has height <= tile_size and width <= tile_size.
C13_TileSizeLimit ==
    \A k \in DOMAIN rects : Edge(k, 1) <= tile_size /\ Edge(k, 2) <= tile_size

\* a dispatched tile higher than tile_size
C13_Witness ==
    \E k \in DOMAIN rects : Edge(k, 1) > tile_size

\* C14: AdamOptimizer.roll(o) directly followed by roll(-o) leaves the
\* first-moment, second-moment and averaged-iterate buffers and the
\* accumulated offset as they were before the pair; and the accumulated
\* offset is always the sum of the offsets rolled.
C14_RollRoundTrip ==
    /\ hist.pairPre # <<>> =>
          /\ optimizer.g1 = hist.pairPre[1].g1
          /\ optimizer.g2 = hist.pairPre[1].g2
          /\ optimizer.p1 = hist.pairPre[1].p1
          /\ optimizer.xy = hist.pairPre[1].xy
    /\ phase = "api" => optimizer.xy = hist.rollSum

\* a pair roll(o), roll(-o) with o # 0 has completed on buffers that a roll
\* by o changes, after an earlier roll left a non-zero accumulated offset
C14_Witness ==
    /\ hist.pairPre # <<>>
    /\ hist.arg # <<0, 0>>
    /\ roll2(optimizer.g1, hist.arg) # optimizer.g1
    /\ roll2(optimizer.p1, hist.arg) # optimizer.p1
    /\ optimizer.xy # <<0, 0>>

SameShape(a, c) ==
    /\ DOMAIN a = DOMAIN c
    /\ \A i \in DOMAIN a : DOMAIN a[i] = DOMAIN c[i]

\* C15: after construction and after every call of update, roll, set_params
\* or restore_state, in any order, the first-moment, second-moment and
\* averaged-iterate buffers have the shape of the iterate; set_params(x)
\* leaves all four with the shape of x.
C15_BufferShapes ==
    /\ SameShape(optimizer.g1, optimizer.params)
    /\ SameShape(optimizer.g2, optimizer.params)
    /\ SameShape(optimizer.p1, optimizer.params)
    /\ hist.op = "set_params" => Shape(optimizer.params) = hist.arg[1]

\* set_params has changed the resolution of an optimizer that had been
\* updated
C15_Witness ==
    /\ hist.op = "set_params"
    /\ Shape(hist.pre[1].params) # Shape(optimizer.params)
    /\ hist.pre[1].step > 0
    /\ Shape(optimizer.p1) = hist.arg[1]

\* C16: every element of the second-moment buffer is >= 0 after construction
\* and after any sequence of update, roll and set_params calls, also when
\* the resampling filter returns negative values.
C16_SecondMomentNonNegative ==
    \A i \in DOMAIN optimizer.g2 : \A j \in DOMAIN optimizer.g2[i] :
        optimizer.g2[i][j] >= 0

\* set_params has resampled a second-moment buffer with positive elements,
\* and the filter returned a negative value
C16_Witness ==
    /\ hist.op = "set_params"
    /\ \E i \in DOMAIN hist.pre[1].g2 : \E j \in DOMAIN hist.pre[1].g2[i] :
          hist.pre[1].g2[i][j] > 0
    /\ LET r == resize(hist.pre[1].g2, hist.arg[1], hist.arg[2])
       IN  \E i \in DOMAIN r : \E j \in DOMAIN r[i] : r[i][j] < 0

\* C17: after restore_state(saved), where saved may carry a non-zero
\* accumulated offset, the accumulated offset is zero and the iterate, the
\* first moment, the second moment and the averaged iterate are all in the
\* unshifted frame: each is the saved buffer rolled back by the saved offset.
C17_RestoreUnshifted ==
    hist.op = "restore_state" =>
        /\ optimizer.xy = <<0, 0>>
        /\ optimizer.g1 = roll2(saved[1].g1, Neg(saved[1].xy))
        /\ optimizer.g2 = roll2(saved[1].g2, Neg(saved[1].xy))
        /\ optimizer.p1 = roll2(saved[1].p1, Neg(saved[1].xy))
        /\ optimizer.params = roll2(saved[1].params, Neg(saved[1].xy))

\* a state saved between the forward and the backward jitter, with a
\* non-zero offset that moves the iterate, has been restored
C17_Witness ==
    /\ hist.op = "restore_state"
    /\ saved[1].xy # <<0, 0>>
    /\ roll2(saved[1].params, Neg(saved[1].xy)) # saved[1].params
    /\ optimizer.xy = <<0, 0>>
    /\ optimizer.g1 = roll2(saved[1].g1, Neg(saved[1].xy))
    /\ optimizer.params = saved[1].params

\* the iteration loop of transfer, and a run that a KeyboardInterrupt ended
\* there
IterationLoop == {"sc_grad", "sc_grad_collect"}
InterruptedInLoop ==
    /\ pc = "interrupted"
    /\ interrupt_pc # None
    /\ interrupt_pc[1] \in IterationLoop

\* the most recently completed iteration, counted from the loop counters:
\* step iter of this scale, else the last step of the scale before
LastCompleted ==
    IF iter > 0 THEN <<scale, iter>>
    ELSE IF scale > 1 /\ Iterations > 0 THEN <<scale - 1, Iterations>>
    ELSE None

\* C18: a user interrupt at any point of the iteration loop, at any scale
\* and also during the first iteration, stops the supervisor (no new round
\* is dispatched) and the run ends by emitting the output of the most
\* recently completed iteration together with the optimizer state.
C18_Cancellation ==
    InterruptedInLoop =>
        /\ ~ENABLED SupervisorNext
        /\ emitted # None
        /\ emitted[1].image = LastCompleted
        /\ emitted[1].state = "optimizer"

\* an interrupt arrived in the middle of the first gradient round of the
\* first scale, with a request still queued, and the run ended with neither
\* an image nor the optimizer state emitted
C18_Witness ==
    /\ InterruptedInLoop
    /\ scale = 1
    /\ iter = 0
    /\ \E w \in Workers : req_q[w] # <<>>
    /\ emitted = None

\* C19: when ensure_healthy raises the pool-malfunction error in a run in
\* which at least one iteration has completed, the run ends only after the
\* most recently recorded output has been emitted.
C19_MalfunctionFlushes ==
    pc = "raised" /\ current_output # None =>
        /\ emitted # None
        /\ emitted[1].image = current_output

\* the error was raised after an iteration had completed, and the run ended
\* with nothing emitted
C19_Witness ==
    /\ pc = "raised"
    /\ raised
    /\ current_output # None
    /\ emitted = None

\* the content images are not all of one size, or there are style masks in
\* another number than the style images
Misconfigured ==
    \/ Cardinality({content_images[i] : i \in DOMAIN content_images}) > 1
    \/ style_masks \notin {0, Cardinality(StyleImages)}

\* C20: with content images of different sizes, or a non-zero number of
\* style masks that differs from the number of style images,
\* transfer_multiscale raises the configuration error before any job has
\* been put on any worker's inbound queue: the run never gets past the top
\* of the first scale and no queue ever holds a message.
C20_EagerConfigErrors ==
    Misconfigured =>
        /\ pc \in {"scale", "config_error", "interrupted"}
        /\ pc = "interrupted" => interrupt_pc = <<"scale">>
        /\ scale = 1
        /\ req_count = 0
        /\ resp_q = <<>>
        /\ \A w \in Workers : req_q[w] = <<>> /\ wscale[w] = 0

\* the error was raised for content images of two sizes, no job queued
C20_Witness ==
    /\ pc = "config_error"
    /\ Len(content_images) > 1
    /\ content_images[2] # content_images[1]
    /\ req_count = 0
    /\ \A w \in Workers : req_q[w] = <<>>

\* |a|
Abs(a) == IF a < 0 THEN 0 - a ELSE a

\* a fresh optimizer has only been updated, with the zero gradient each time
ZeroGradientRun == hist.zeroRun /\ hist.op = "update"

\* C21 as stated: from a fresh optimizer, if every gradient is zero, then
\* after any number of updates the iterate is unchanged, both moments are
\* zero and the averaged iterate returned equals the iterate.
C21_DegenerateFixedPointExact ==
    ZeroGradientRun =>
        /\ optimizer.params = ImageOf(Shape(optimizer.params))
        /\ optimizer.g1 = zeros_like(optimizer.params)
        /\ optimizer.g2 = zeros_like(optimizer.params)
        /\ hist.avg = optimizer.params

\* C21, amended: from a fresh optimizer, if every gradient is zero, then
\* after any number of updates the iterate is unchanged and both moments are
\* zero; the averaged iterate returned equals the iterate up to the rounding
\* of the arithmetic only: p1 and 1 - bp1**step are each rounded at every
\* step, and their quotient differs from the iterate by at most the
\* accumulated rounding.
C21_DegenerateFixedPoint ==
    ZeroGradientRun =>
        /\ optimizer.params = ImageOf(Shape(optimizer.params))
        /\ optimizer.g1 = zeros_like(optimizer.params)
        /\ optimizer.g2 = zeros_like(optimizer.params)
        /\ SameShape(hist.avg, optimizer.params)
        /\ \A i \in DOMAIN hist.avg : \A j \in DOMAIN hist.avg[i] :
              Abs(hist.avg[i][j] - optimizer.params[i][j]) * (One - Pow(bp1, optimizer.step))
                  <= optimizer.step * (2 * One + Abs(optimizer.params[i][j]))
                     + (One - Pow(bp1, optimizer.step))

\* several updates with the zero gradient have been made, and the averaged
\* iterate returned differs from the iterate by rounding
C21_Witness ==
    /\ ZeroGradientRun
    /\ optimizer.step > 1
    /\ hist.avg # optimizer.params
    /\ optimizer.params = ImageOf(Shape(optimizer.params))

\* C22: in every feature or gradient round the supervisor consumes exactly
\* as many results as it dispatched jobs, every result consumed echoes the
\* origin of one job of that round not consumed before, no two jobs of a
\* round have the same origin (the tile starts of an axis differ pairwise),
\* and the round returns only after all its results have been consumed.
C22_RoundAccounting ==
    /\ Defect("result of no job of the round") = {}
    /\ Defect("round returned before all results") = {}
    /\ pc \in {"features_collect", "sc_grad_collect"} =>
          /\ consumed \subseteq Origins(ntiles)
          /\ Cardinality(consumed) = got
          /\ got <= ntiles
          /\ \A w \in Workers : \A i \in DOMAIN req_q[w] :
                req_q[w][i].type \in {"FeatureMapRequest", "SCGradRequest"} =>
                    req_q[w][i].resp \in Origins(ntiles) \ consumed
    /\ \A S \in 1 .. MaxEdge : \A T \in 1 .. MaxTileSize :
          \A i, j \in 0 .. (NTiles(S, T) - 1) :
              i # j => TileStart(i, S, T) # TileStart(j, S, T)

\* the run has ended after a gradient round of several tiles of which every
\* result was consumed
C22_Witness ==
    /\ pc = "done"
    /\ ntiles > 1
    /\ got = ntiles
    /\ consumed = Origins(ntiles)

\* every result of the round being reassembled has arrived
AllArrived == TileLoopDone /\ arrived = DOMAIN rects

\* the buffers as the results written in the order of dispatch leave them
RECURSIVE FeaturesInOrder(_)
FeaturesInOrder(n) ==
    IF n = 0 THEN Zeros(CeilDiv(img_size[1], stride), CeilDiv(img_size[2], stride))
    ELSE SliceAssign(FeaturesInOrder(n - 1), StartF(rects[n], stride),
                     EndF(rects[n], stride), n)
RECURSIVE GradInOrder(_)
GradInOrder(n) ==
    IF n = 0 THEN Zeros(img_size[1], img_size[2])
    ELSE SliceAssign(GradInOrder(n - 1), rects[n].start, rects[n].end, n)

\* C23: for the tile results of one round, the reassembled gradient buffer
\* and the reassembled feature buffer of a layer of any stride are the same
\* for every order in which the results arrive: they are what the order of
\* dispatch gives.
C23_ArrivalOrderIndependence ==
    AllArrived /\ ~failed =>
        /\ round_kind = "features" => features = FeaturesInOrder(Len(rects))
        /\ round_kind = "sc_grad" => full_grad = GradInOrder(Len(rects))

\* all feature results of a round have arrived, in an order that left the
\* feature buffer other than the order of dispatch does
C23_Witness ==
    /\ AllArrived
    /\ round_kind = "features"
    /\ ~failed
    /\ features # FeaturesInOrder(Len(rects))

\* C25: for every image size, tile_size and layer stride, writing every
\* feature tile at start // stride never reaches past the full feature
\* buffer, and writes every cell of the buffer exactly once: none is written
\* by two tiles, and none is left at zero when all results are in.
C25_FeatureReassembly ==
    round_kind = "features" =>
        /\ ~failed
        /\ \A i \in DOMAIN written : \A j \in DOMAIN written[i] :
              /\ written[i][j] <= 1
              /\ AllArrived => written[i][j] = 1 /\ features[i][j] # 0

\* all feature results of a round are in, no write failed, no cell is left
\* at zero, and a cell has been written by two tiles
C25_Witness ==
    /\ round_kind = "features"
    /\ AllArrived
    /\ ~failed
    /\ \A i \in DOMAIN features : \A j \in DOMAIN features[i] : features[i][j] # 0
    /\ \E i \in DOMAIN written : \E j \in DOMAIN written[i] : written[i][j] = 2

\* where the supervising process blocks on resp_q.get(): the result loop of
\* a feature round, of a gradient round, and the acknowledgement loop of
\* set_contents_and_styles
WaitPcs == {"features_collect", "sc_grad_collect", "set_contents_and_styles"}

\* C24: with no worker exiting and every process scheduled fairly, from
\* every point of a dispatched round (feature or gradient) and of the
\* set-references barrier the run reaches its normal end, for tile counts
\* below, equal to and above the number of workers: the round or barrier
\* has completed (a raise or a crash is never left), and the supervisor and
\* the workers do not deadlock on the queues.
C24_ProgressWithoutFailure ==
    (pc \in WaitPcs \union {"features", "sc_grad"}) ~> (pc = "done")

\* a gradient round of more tiles than workers has all its results
C24_Witness ==
    /\ pc = "sc_grad_collect"
    /\ ntiles > NumWorkers
    /\ got = ntiles
    /\ \A w \in Workers : exitcode[w] = None
\* the reference arrays of a model: content features, content masks, style
\* masks
RefsOf(m) == <<m.features, m.cmasks, m.smasks>>

\* C26: after a roll by an offset and the later roll by its negation, the
\* reference arrays (content features, content masks, style masks) are
\* where they were before, for every offset and every layer, in a worker
\* after a gradient job, in the supervisor after an iteration and after a
\* feature pass.
C26_ReferenceStateRestored ==
    roll_hist # <<>> /\ roll_hist.restored => RefsOf(model_refs) = RefsOf(roll_hist.pre)

\* a pair of rolls by an offset other than zero has completed in a model
\* with a layer of a larger scale factor than the jitter scale
C26_Witness ==
    /\ roll_hist # <<>>
    /\ roll_hist.restored
    /\ roll_hist.last.xy # <<0, 0>>
    /\ roll_hist.last.site = "transfer"
    /\ \E l \in Strides : l > roll_hist.last.jitter_scale

\* two offsets that roll an array of the shape hw alike
SameShift(xy, uv, hw) ==
    /\ (xy[1] - uv[1]) % hw[2] = 0
    /\ (xy[2] - uv[2]) % hw[1] = 0

\* C27: when the update has evaluated the gradient, the image and the
\* optimizer's buffers have been shifted by the same offset (the optimizer's
\* accumulated offset is the image's net shift) and the averaged iterate it
\* returns is in the unshifted frame (the averaged buffer rolled back by the
\* image's shift, normalised); at the end of every completed iteration both
\* net shifts are zero.
C27_JitterLockstep ==
    /\ phase = "updated" =>
          /\ SameShift(optimizer.xy, hist.imgShift, Shape(optimizer.params))
          /\ hist.avg = Over(roll2(optimizer.p1, Neg(hist.imgShift)),
                             One - Pow(bp1, optimizer.step))
    /\ phase = "loop" /\ hist.op = "jitter_back" =>
          /\ optimizer.xy = <<0, 0>>
          /\ SameShift(hist.imgShift, <<0, 0>>, Shape(optimizer.params))

\* an update between a forward jitter that moved the image and its
\* backward jitter
C27_Witness ==
    /\ phase = "updated"
    /\ hist.jitter # <<0, 0>>
    /\ roll2(optimizer.params, hist.jitter) # optimizer.params
    /\ optimizer.xy = hist.jitter

\* the step counter the run starts from: that of the restored state, or zero
InitialStep == IF initial_state = None THEN 0 ELSE initial_state[1].step

\* C28: set_params (a later scale's start) and the rolls of an iteration
\* leave the optimizer's step counter unchanged, an iteration adds one, the
\* counter never decreases, and when transfer_multiscale has returned it
\* is the restored (or zero) initial value plus the number of iterations
\* executed over all scales.
C28_StepCarriesAcrossScales ==
    /\ [](ms.pc = "done" => optimizer.step = InitialStep + ms.updates)
    /\ [][/\ optimizer # <<>> /\ optimizer' # <<>> => optimizer'.step >= optimizer.step
          /\ ms.pc = "scale" /\ ms.output_image # None =>
                 optimizer'.step = optimizer.step
          /\ ms.pc = "transfer" /\ ms'.step = ms.step + 1 =>
                 optimizer'.step = optimizer.step + 1]_vars

\* a run of two or more scales from a restored state has returned after
\* iterations at more than one scale
C28_Witness ==
    /\ ms # <<>>
    /\ ms.pc = "done"
    /\ Len(ms.sizes) > 1
    /\ initial_state # None
    /\ ms.updates > ARGS.iterations[1]
    /\ ARGS.iterations[1] > 0
    /\ optimizer.step = initial_state[1].step + ms.updates

\* C29: the list of sizes starts at the configured size and goes on with
\* round(size / sqrt(2)) while that is at least min_size; it is strictly
\* decreasing, so that the scales, taken from its end, are processed in
\* strictly increasing size; a run that returns has processed at least
\* one scale, the last of them the configured size.
C29_ScaleOrder ==
    ms # <<>> =>
        /\ ms.sizes[1] = ARGS.size
        /\ \A k \in 2 .. Len(ms.sizes) :
              /\ ms.sizes[k] = RoundDivSqrt2(ms.sizes[k - 1])
              /\ ms.sizes[k] >= ARGS.min_size
              /\ ms.sizes[k] < ms.sizes[k - 1]
        /\ ms.pc # "sizes" => RoundDivSqrt2(ms.sizes[Len(ms.sizes)]) < ARGS.min_size
        /\ \A k \in DOMAIN ms.processed :
              /\ ms.processed[k] = ms.sizes[Len(ms.sizes) + 1 - k]
              /\ k > 1 => ms.processed[k - 1] < ms.processed[k]
        /\ ms.pc = "done" =>
              /\ ms.processed # <<>>
              /\ ms.processed[Len(ms.processed)] = ARGS.size

\* a run of three scales has returned
C29_Witness ==
    /\ ms # <<>>
    /\ ms.pc = "done"
    /\ Len(ms.processed) = 3
    /\ ms.processed[3] = ARGS.size

\* C30: for every schedule, the branch that makes a fresh iterate and a new
\* AdamOptimizer is taken at the first processed scale only; every later
\* scale starts with the same optimizer, its iterate the previous averaged
\* output resized to the scale's size.
C30_FirstScaleOnce ==
    ms # <<>> =>
        /\ ms.first_at \subseteq {0}
        /\ ms.optimizers <= 1
        /\ ms.pc = "transfer" /\ ms.i > 0 /\ ms.step = 0 =>
              /\ ms.resized # None
              /\ ms.resized = ms.current_raw
              /\ \E ring \in Ringing :
                    optimizer.params =
                        resize(ms.resized[1], <<1, ms.processed[ms.i + 1]>>, ring)

\* the second scale of a schedule whose first entry is 0 has started
C30_Witness ==
    /\ ms # <<>>
    /\ ms.pc = "transfer"
    /\ ms.i = 1
    /\ ARGS.iterations[1] = 0
    /\ ms.output_image = None

\* C31: the i-th scale processed (from 0, smallest first) runs exactly
\* iterations[min(i, len(iterations) - 1)] iterations, and the number of
\* steps announced to the callback before the first scale is the number of
\* times an uninterrupted run has called it.
C31_IterationsPerScale ==
    ms # <<>> =>
        /\ \A k \in DOMAIN ms.ran :
              ms.ran[k] = ARGS.iterations[IF k < Len(ARGS.iterations)
                                          THEN k ELSE Len(ARGS.iterations)]
        /\ ms.pc \notin {"sizes"} => ms.steps # None
        /\ ms.pc = "done" =>
              /\ Len(ms.ran) = Len(ms.sizes)
              /\ ms.steps[1] = ms.callbacks

\* a run of three scales under a schedule of two different entries, the
\* second of them used twice, has returned
C31_Witness ==
    /\ ms # <<>>
    /\ ms.pc = "done"
    /\ Len(ms.ran) = 3
    /\ Len(ARGS.iterations) = 2
    /\ ARGS.iterations[1] # ARGS.iterations[2]
    /\ ms.ran = <<ARGS.iterations[1], ARGS.iterations[2], ARGS.iterations[2]>>
    /\ ms.callbacks > 0

\* C32: with MKL present, the threads_per_process reset_next_worker computes
\* from the K jobs of a round is M // min(N, max(1, K)), each worker applies
\* max(1, .) of it, and the message is queued on every worker behind the
\* round's jobs: a worker about to execute a tile job still has the cap of
\* the round before (1 before the first round). After reset_next_worker
\* the job count and the cursor are 0.
C32_ThreadBudgetTiming ==
    /\ (MKL_THREADS # None /\ pc \in {"features_collect", "sc_grad_collect"}) =>
          /\ threads_per_process =
                MKL_THREADS[1] \div (IF NumWorkers < ntiles THEN NumWorkers ELSE ntiles)
          /\ \A w \in Workers :
                IF req_q[w] = <<>>
                THEN wthreads[w] = (IF threads_per_process < 1 THEN 1
                                    ELSE threads_per_process)
                ELSE /\ req_q[w][Len(req_q[w])].type = "SetThreadCount"
                     /\ req_q[w][Len(req_q[w])].threads = threads_per_process
    /\ pc \in {"features_collect", "sc_grad_collect"} =>
          req_count = 0 /\ next_worker = 0
    /\ \A w \in Workers :
          (req_q[w] # <<>>
             /\ Head(req_q[w]).type \in {"FeatureMapRequest", "SCGradRequest"}) =>
                wthreads[w] = (IF Head(req_q[w]).budget < 1 THEN 1
                               ELSE Head(req_q[w]).budget)

\* a worker is about to execute a job of a round of two tiles under the cap
\* computed from a round of one tile, the cap of its own round queued behind
C32_Witness ==
    /\ MKL_THREADS # None
    /\ pc = "features_collect"
    /\ ntiles = 2
    /\ threads_per_process = MKL_THREADS[1] \div 2
    /\ \E w \in Workers :
          /\ Len(req_q[w]) = 2
          /\ req_q[w][1].type = "FeatureMapRequest"
          /\ req_q[w][1].budget = MKL_THREADS[1]
          /\ wthreads[w] = MKL_THREADS[1]
          /\ req_q[w][2].type = "SetThreadCount"
          /\ req_q[w][2].threads = MKL_THREADS[1] \div 2

\* C33: for every budget M >= 1, pool size N >= 1 and job count K >= 0, the
\* cap a worker has applied times the min(N, max(1, K)) active workers it
\* was computed for is at most M.
C33_ThreadBudgetBound ==
    pool_budget # <<>> =>
        \A w \in 1 .. pool_budget.workers :
            pool_budget.applied[w] # <<>> =>
                LET k == pool_budget.applied[w][1].jobs
                    a1 == IF k < 1 THEN 1 ELSE k
                    active == IF pool_budget.workers < a1
                              THEN pool_budget.workers ELSE a1
                IN  pool_budget.applied[w][1].cap * active <= pool_budget.MKL_THREADS

\* a worker has applied a cap computed for two active workers under a
\* budget of four threads
C33_Witness ==
    /\ pool_budget # <<>>
    /\ pool_budget.MKL_THREADS = 4
    /\ \E w \in 1 .. pool_budget.workers :
          /\ pool_budget.applied[w] # <<>>
          /\ pool_budget.applied[w][1].jobs = 2
          /\ pool_budget.applied[w][1].cap = 2

\* the layers the three lists of a gradient job request
Requested == sc_eval.content_layers \union sc_eval.style_layers
                 \union sc_eval.dd_layers

\* C34: for every combination of the three requested layer sets, empty ones
\* included, the gradient job is evaluated, and the evaluation visits
\* exactly the layers of their union, each once, deepest first; the backward
\* calls chain from each visited layer to the next and from the last to the
\* input, and only requested layers get a gradient term.
C34_LayerVisitingOrder ==
    sc_eval # <<>> =>
        /\ sc_eval.pc # "IndexError"
        /\ sc_eval.pc = "done" =>
              /\ Range(sc_eval.visited) = Requested
              /\ Len(sc_eval.visited) = Cardinality(Requested)
              /\ \A j, k \in DOMAIN sc_eval.visited :
                    j < k => sc_eval.visited[j] > sc_eval.visited[k]
              /\ Len(sc_eval.backward) = Len(sc_eval.visited)
              /\ \A k \in DOMAIN sc_eval.backward :
                    sc_eval.backward[k] =
                        <<sc_eval.visited[k],
                          IF k < Len(sc_eval.visited) THEN sc_eval.visited[k + 1]
                          ELSE 0>>
              /\ \A t \in sc_eval.terms : t[2] \in Requested

\* a job whose lists name the deepest and the shallowest layer has been
\* evaluated, the layer between them traversed by the first backward call
C34_Witness ==
    /\ sc_eval # <<>>
    /\ sc_eval.pc = "done"
    /\ sc_eval.content_layers = {NumLayers}
    /\ sc_eval.style_layers = {1, NumLayers}
    /\ sc_eval.dd_layers = {}
    /\ sc_eval.visited = <<NumLayers, 1>>
    /\ sc_eval.backward = <<<<NumLayers, 1>>, <<1, 0>>>>

\* the messages of one type on the queues of the first n workers
RECURSIVE Owed(_, _)
Owed(n, type) ==
    IF n = 0 THEN 0
    ELSE Cardinality({i \in DOMAIN req_q[n - 1] : req_q[n - 1][i].type = type})
             + Owed(n - 1, type)

\* C35: in a run without failure a worker puts exactly one response for a
\* FeatureMapRequest, an SCGradRequest and a SetContentsAndStyles message
\* and none for a SetThreadCount message; the result queue is empty when a
\* round's receiving loop or set_contents_and_styles has taken its last
\* item, and all that set_contents_and_styles can take from it are the
\* acknowledgements of its own broadcast, one per message put.
C35_ResultQueueEmptyAtBoundaries ==
    /\ [](/\ (pc \in {"features_collect", "sc_grad_collect"}
                 /\ got = ntiles) => resp_q = <<>>
          /\ (pc = "set_contents_and_styles" /\ bw = NumWorkers
                 /\ got = NumWorkers) => resp_q = <<>>
          /\ pc = "set_contents_and_styles" =>
                /\ \A i \in DOMAIN resp_q : resp_q[i].type = "Ack"
                /\ bw > 0 =>
                      got + Len(resp_q)
                          + Owed(NumWorkers, "SetContentsAndStyles") = bw)
    /\ [][\A w \in Workers :
            (req_q[w] # <<>> /\ req_q'[w] = Tail(req_q[w])) =>
                resp_q' = resp_q \o
                    (IF Head(req_q[w]).type = "SetThreadCount" THEN <<>>
                     ELSE <<resp_q'[Len(resp_q')]>>)]_vars

\* set_contents_and_styles has taken the acknowledgement of every worker
\* after rounds whose SetThreadCount messages the workers have processed
C35_Witness ==
    /\ pc = "set_contents_and_styles"
    /\ bw = NumWorkers
    /\ got = NumWorkers
    /\ resp_q = <<>>
    /\ MKL_THREADS # None
    /\ \A w \in Workers : req_q[w] = <<>> /\ wthreads[w] # 1

\* C36: for every size >= 1 and every min_size, min_size <= 1 included, the
\* loop of transfer_multiscale that builds the list of scales comes to its
\* end.
C36_SizesLoopTerminates == <>(ms.pc # "sizes")

\* the loop has ended with a list of three scales
C36_Witness ==
    /\ ms # <<>>
    /\ ms.pc # "sizes"
    /\ Len(ms.sizes) = 3
    /\ ARGS.min_size = 2

\* C37: whenever main persists the optimizer (after a completed iteration,
\* or after an interrupt raised inside the gradient evaluation of update),
\* the pickled step counter is the run's initial value plus the number of
\* updates whose moment and iterate changes have been applied.
C37_StepMatchesAppliedUpdates ==
    (phase = "interrupted" /\ hist.op = "interrupt" /\ hist.recorded > 0) =>
        /\ saved # <<>>
        /\ saved[1].step = hist.step0 + (calls - hist.calls0)

\* the state has been saved at an interrupt that came between two
\* iterations, after an update
C37_Witness ==
    /\ phase = "interrupted"
    /\ hist.op = "interrupt"
    /\ hist.recorded > 0
    /\ saved # <<>>
    /\ calls - hist.calls0 > 0
    /\ saved[1].step = hist.step0 + (calls - hist.calls0)
====
